---- MODULE Spec2Model ----
(***************************************************************************)
(* Verification & enrichment pipeline of the backflow-tester directory:    *)
(*   crawler/03_verify_backflow.py    two-pass verifier (CSV driver)       *)
(*   crawler/03_verify_and_enrich.py  two-pass verifier + enrichment       *)
(*   crawler/05_enrich_images.py      image enrichment (CSV driver)        *)
(*   crawler/06_enrich_images_db.py   image enrichment (database driver)   *)
(*                                                                         *)
(* Seven specifications share the module:                                    *)
(*   SpecPure    the pure functions (score_text, assign_tier,              *)
(*               normalize_url) applied to inputs drawn from bounded sets  *)
(*   SpecVerify  verify_website / verify_and_enrich for one business       *)
(*   Spec        the batch drivers with checkpoint, sinks, crash, resume   *)
(*   SpecEnrich  enrich_provider (image pipeline, stages A-C) for one      *)
(*               business, with every shape of classifier response         *)
(*   SpecGates   the enrich_provider tasks of one batch run concurrently   *)
(*   SpecRetry   the retry loops around the business-search and the        *)
(*               classification collaborators                              *)
(*   SpecStageC  enrich_provider on homepages of up to MaxPhotos photos,   *)
(*               with well-formed classifier responses                     *)
(***************************************************************************)
EXTENDS Integers, Sequences, FiniteSets, TLC

VARIABLES
    px,             \* SpecPure: the last pure-function application
    vw,             \* SpecVerify: locals of verify_website for one business
    ep,             \* SpecEnrich / SpecGates: the enrich_provider tasks of one batch
    rt,             \* SpecRetry: one collaborator call with its retry loop
    driver,         \* which script runs
    batch_size,     \* args.batch_size
    run_no,         \* number of process starts so far
    resume,         \* args.resume of the current run
    pc,             \* position of the current run
    rows_list,      \* remaining-work queue of the current run (df / rows_list / remaining)
    batch_start,    \* loop variable i / batch_start (0-based)
    results,        \* results of the item tasks of the current batch
    state,          \* in-memory checkpoint state
    state_file,     \* the checkpoint file on disk
    tmp_file,       \* the .tmp file beside it (05 / 06)
    mem_kept,       \* verified_results / enriched_rows
    mem_rejected,   \* rejected_results / rejected_rows
    sink_kept,      \* verified.csv / images_enriched.csv
    sink_rejected,  \* rejected_by_verifier.csv / images_rejected.csv
    db_images,      \* 06: real images per place_id in the providers table
    hist            \* history of the runs (observation only)

ovars == <<driver, batch_size, run_no, resume, pc, rows_list, batch_start, results,
           state, state_file, tmp_file, mem_kept, mem_rejected, sink_kept,
           sink_rejected, db_images, hist>>
vars == <<px, vw, ep, rt, driver, batch_size, run_no, resume, pc, rows_list, batch_start,
          results, state, state_file, tmp_file, mem_kept, mem_rejected, sink_kept,
          sink_rejected, db_images, hist>>

(***************************************************************************)
(* Bounds of the model.                                                    *)
(***************************************************************************)
MaxPhrases == 2         \* phrases per generated text
MaxTestingThreshold == 9 \* largest --testing-threshold tried
MaxThreshold == 3       \* largest --threshold tried

(***************************************************************************)
(* Strings.  Python str operations, on TLC strings.                        *)
(***************************************************************************)
Min(a, b) == IF a <= b THEN a ELSE b

\* `sub in s`
Contains(sub, s) ==
    \E i \in 1..(Len(s) - Len(sub) + 1) : SubSeq(s, i, i + Len(sub) - 1) = sub

\* s.startswith(p)
StartsWith(s, p) == Len(s) >= Len(p) /\ SubSeq(s, 1, Len(p)) = p

LowerChar(c) ==
    CASE c = "A" -> "a" [] c = "B" -> "b" [] c = "C" -> "c" [] c = "D" -> "d"
      [] c = "E" -> "e" [] c = "F" -> "f" [] c = "G" -> "g" [] c = "H" -> "h"
      [] c = "I" -> "i" [] c = "J" -> "j" [] c = "K" -> "k" [] c = "L" -> "l"
      [] c = "M" -> "m" [] c = "N" -> "n" [] c = "O" -> "o" [] c = "P" -> "p"
      [] c = "Q" -> "q" [] c = "R" -> "r" [] c = "S" -> "s" [] c = "T" -> "t"
      [] c = "U" -> "u" [] c = "V" -> "v" [] c = "W" -> "w" [] c = "X" -> "x"
      [] c = "Y" -> "y" [] c = "Z" -> "z" [] OTHER -> c

RECURSIVE Lower(_)
\* s.lower()
Lower(s) ==
    IF s = "" THEN ""
    ELSE LowerChar(SubSeq(s, 1, 1)) \o Lower(SubSeq(s, 2, Len(s)))

RECURSIVE LStrip(_)
LStrip(s) ==
    IF s # "" /\ SubSeq(s, 1, 1) = " " THEN LStrip(SubSeq(s, 2, Len(s))) ELSE s

RECURSIVE RStrip(_)
RStrip(s) ==
    IF s # "" /\ SubSeq(s, Len(s), Len(s)) = " "
    THEN RStrip(SubSeq(s, 1, Len(s) - 1)) ELSE s

\* s.strip()
Strip(s) == RStrip(LStrip(s))

(***************************************************************************)
(* Relevance scorer.                                                       *)
(***************************************************************************)
\* The term table, in the dict's insertion order: <<term, weight>>.
BACKFLOW_TERMS ==
    << <<"backflow testing", 3>>, <<"backflow tester", 3>>, <<"backflow test", 3>>,
       <<"backflow inspection", 2>>, <<"backflow preventer", 2>>,
       <<"backflow prevention", 2>>, <<"backflow installation", 2>>,
       <<"backflow repair", 2>>, <<"backflow service", 2>>,
       <<"backflow certification", 2>>, <<"backflow certified", 2>>,
       <<"cross connection", 1>>, <<"cross-connection", 1>>,
       <<"cross connection control", 2>>, <<"rpz", 1>>, <<"rpz testing", 2>>,
       <<"reduced pressure zone", 1>>, <<"reduced pressure", 1>>, <<"dcva", 1>>,
       <<"double check valve", 1>>, <<"double-check valve", 1>>, <<"pvb", 1>>,
       <<"pressure vacuum breaker", 1>>, <<"backflow", 1>>, <<"back flow", 1>>,
       <<"irrigation backflow", 2>>, <<"sprinkler backflow", 2>>,
       <<"test report", 1>>, <<"annual test", 1>> >>

TESTING_TIER_TERMS ==
    {"backflow testing", "backflow tester", "backflow test", "rpz testing",
     "backflow inspection", "backflow certification", "backflow certified",
     "annual backflow test", "test report", "cross connection control"}

TIER_TESTING_DEFAULT == 4
TIER_SERVICE_DEFAULT == 2
SCORE_CAP == 10

RECURSIVE SumWeights(_, _)
\* the loop `for term, weight in BACKFLOW_TERMS.items(): if term in text_lower: score += weight`
SumWeights(text_lower, k) ==
    IF k = 0 THEN 0
    ELSE SumWeights(text_lower, k - 1)
         + (IF Contains(BACKFLOW_TERMS[k][1], text_lower) THEN BACKFLOW_TERMS[k][2] ELSE 0)

\* score_text without the cap (a keyword-stuffed text scores without limit)
score_text_uncapped(text) ==
    IF text = "" THEN [score |-> 0, matched |-> {}]
    ELSE LET text_lower == Lower(text)
         IN  [score   |-> SumWeights(text_lower, Len(BACKFLOW_TERMS)),
              matched |-> {BACKFLOW_TERMS[k][1] : k \in
                              {j \in 1..Len(BACKFLOW_TERMS) :
                                  Contains(BACKFLOW_TERMS[j][1], text_lower)}}]

\* score_text matching the text as written, without lower-casing it
score_text_case_sensitive(text) ==
    IF text = "" THEN [score |-> 0, matched |-> {}]
    ELSE [score   |-> Min(SCORE_CAP, SumWeights(text, Len(BACKFLOW_TERMS))),
          matched |-> {BACKFLOW_TERMS[k][1] : k \in
                          {j \in 1..Len(BACKFLOW_TERMS) :
                              Contains(BACKFLOW_TERMS[j][1], text)}}]

\* score_text(text): (score, matched terms); the matched terms are a set
\* (list(set(matched_terms)) has no defined order).
score_text(text) ==
    IF text = "" THEN [score |-> 0, matched |-> {}]
    ELSE LET text_lower == Lower(text)
         IN  [score   |-> Min(SCORE_CAP, SumWeights(text_lower, Len(BACKFLOW_TERMS))),
              matched |-> {BACKFLOW_TERMS[k][1] : k \in
                              {j \in 1..Len(BACKFLOW_TERMS) :
                                  Contains(BACKFLOW_TERMS[j][1], text_lower)}}]

\* assign_tier(score, matched_terms, testing_threshold)
assign_tier(score, matched_terms, testing_threshold) ==
    LET has_testing_term == \E t \in matched_terms : t \in TESTING_TIER_TERMS
    IN  IF score >= testing_threshold /\ has_testing_term THEN "testing"
        ELSE IF score >= TIER_SERVICE_DEFAULT THEN "service"
        ELSE "none"

(***************************************************************************)
(* URL normalisation.                                                      *)
(***************************************************************************)
\* A cell of the input table: NaN (pd.isna) or a string.
NaN == [isna |-> TRUE, s |-> ""]
Str(s) == [isna |-> FALSE, s |-> s]

\* Optional[str]: None is [ok |-> FALSE].
None == [ok |-> FALSE, url |-> ""]
Some(u) == [ok |-> TRUE, url |-> u]

RECURSIVE UpToDelimiter(_)
\* the netloc part: the text up to the first of "/", "?", "#"
UpToDelimiter(s) ==
    IF s = "" \/ SubSeq(s, 1, 1) \in {"/", "?", "#"} THEN ""
    ELSE SubSeq(s, 1, 1) \o UpToDelimiter(SubSeq(s, 2, Len(s)))

\* urlparse(url).netloc.  A url without an http(s):// prefix has no netloc here (a
\* relative reference, mailto:, tel:); [raises |-> TRUE] stands for ValueError
\* "Invalid IPv6 URL".
urlparse_netloc(url) ==
    LET rest   == IF StartsWith(url, "https://") THEN SubSeq(url, 9, Len(url))
                  ELSE IF StartsWith(url, "http://") THEN SubSeq(url, 8, Len(url))
                  ELSE ""
        netloc == UpToDelimiter(rest)
    IN  IF Contains("[", netloc) # Contains("]", netloc)
        THEN [raises |-> TRUE, netloc |-> ""]
        ELSE [raises |-> FALSE, netloc |-> netloc]

\* normalize_url that only adds the scheme and never looks at the netloc
normalize_url_unchecked(cell) ==
    IF cell.isna \/ cell.s = "" \/ Strip(cell.s) = "" THEN None
    ELSE LET stripped == Strip(cell.s)
         IN  Some(IF StartsWith(stripped, "http://") \/ StartsWith(stripped, "https://")
                  THEN stripped ELSE "https://" \o stripped)

\* normalize_url(url)
normalize_url(cell) ==
    IF cell.isna \/ cell.s = "" \/ Strip(cell.s) = "" THEN None
    ELSE LET stripped == Strip(cell.s)
             url      == IF StartsWith(stripped, "http://") \/ StartsWith(stripped, "https://")
                         THEN stripped ELSE "https://" \o stripped
             parsed   == urlparse_netloc(url)
         IN  IF parsed.raises THEN None
             ELSE IF parsed.netloc = "" THEN None
             ELSE Some(url)

(***************************************************************************)
(* Link classifier.                                                        *)
(***************************************************************************)
SERVICE_PAGE_INDICATORS ==
    {"backflow", "rpz", "cross", "service", "services", "plumbing", "testing",
     "preventer", "irrigation", "sprinkler", "prevention", "repair", "installation"}

\* extract_domain(url): netloc.lower() without a leading "www."; "" when the
\* parse fails (None in the code, falsy like "").
extract_domain(url) ==
    LET parsed == urlparse_netloc(url)
        domain == Lower(parsed.netloc)
    IN  IF parsed.raises THEN ""
        ELSE IF StartsWith(domain, "www.") THEN SubSeq(domain, 5, Len(domain))
        ELSE domain

\* is_same_domain(url1, url2): d1 and d2 and d1 == d2
is_same_domain(url1, url2) ==
    LET d1 == extract_domain(url1)
        d2 == extract_domain(url2)
    IN  d1 # "" /\ d2 # "" /\ d1 = d2

RECURSIVE RStripSlash(_)
\* s.rstrip('/')
RStripSlash(s) ==
    IF s # "" /\ SubSeq(s, Len(s), Len(s)) = "/"
    THEN RStripSlash(SubSeq(s, 1, Len(s) - 1)) ELSE s

\* scheme://netloc of an http(s) url
Origin(url) ==
    LET n == Len(urlparse_netloc(url).netloc)
    IN  IF StartsWith(url, "https://") THEN SubSeq(url, 1, 8 + n)
        ELSE SubSeq(url, 1, 7 + n)

RECURSIVE UpToHash(_)
UpToHash(s) ==
    IF s = "" \/ SubSeq(s, 1, 1) = "#" THEN ""
    ELSE SubSeq(s, 1, 1) \o UpToHash(SubSeq(s, 2, Len(s)))

\* urljoin(base, href) for a base whose path has at most one segment
urljoin(base, href) ==
    IF href = "" THEN base
    ELSE IF StartsWith(href, "http://") \/ StartsWith(href, "https://")
            \/ StartsWith(href, "mailto:") THEN href
    ELSE IF StartsWith(href, "/") THEN Origin(base) \o href
    ELSE IF StartsWith(href, "#") THEN UpToHash(base) \o href
    ELSE Origin(base) \o "/" \o href

\* relevance_score of one link: +2 per indicator in the url, +1 per indicator in
\* the anchor text
Relevance(url_lower, anchor) ==
    2 * Cardinality({ind \in SERVICE_PAGE_INDICATORS : Contains(ind, url_lower)})
    + Cardinality({ind \in SERVICE_PAGE_INDICATORS : Contains(ind, anchor)})

RECURSIVE CollectLinks(_, _)
\* the loop over soup.find_all('a', href=True): <<abs_url, anchor, relevance_score>>
CollectLinks(anchors, base_url) ==
    IF Len(anchors) = 0 THEN <<>>
    ELSE LET a       == anchors[1]
             anchor  == Lower(Strip(a.text))
             abs_url == urljoin(base_url, a.href)
             rel     == Relevance(Lower(abs_url), anchor)
             rest    == CollectLinks(Tail(anchors), base_url)
         IN  IF ~is_same_domain(base_url, abs_url) THEN rest
             ELSE IF RStripSlash(abs_url) = RStripSlash(base_url) THEN rest
             ELSE IF rel > 0 THEN <<[url |-> abs_url, anchor |-> anchor, rel |-> rel]>> \o rest
             ELSE rest

RECURSIVE SortByRelevance(_)
\* links.sort(key=lambda x: x[2], reverse=True): stable, descending
SortByRelevance(links) ==
    IF Len(links) = 0 THEN <<>>
    ELSE LET best == CHOOSE i \in 1..Len(links) :
                        /\ \A j \in 1..Len(links) : links[j].rel <= links[i].rel
                        /\ \A j \in 1..(i - 1) : links[j].rel < links[i].rel
         IN  <<links[best]>>
             \o SortByRelevance([k \in 1..(Len(links) - 1) |->
                                    IF k < best THEN links[k] ELSE links[k + 1]])

\* extract_internal_links(html, base_url, max_links): the html is its sequence
\* of <a href> elements
\* (the links kept in document order, without the sort)
extract_internal_links_unsorted(html, base_url, max_links) ==
    LET links == CollectLinks(html.anchors, base_url)
    IN  SubSeq(links, 1, Min(max_links, Len(links)))

extract_internal_links(html, base_url, max_links) ==
    LET sorted == SortByRelevance(CollectLinks(html.anchors, base_url))
    IN  SubSeq(sorted, 1, Min(max_links, Len(sorted)))

(***************************************************************************)
(* Page-fetch collaborator and crawl_url.                                  *)
(***************************************************************************)
\* crawl_url(crawler, url, timeout): what the collaborator did -> (success,
\* text, html, error_msg)
crawl_url(reply) ==
    IF reply.kind = "ok"
    THEN [success |-> TRUE, text |-> reply.text, html |-> reply.html, error |-> ""]
    ELSE IF reply.kind = "unsuccessful"
    THEN [success |-> FALSE, text |-> "", html |-> [nonempty |-> FALSE, anchors |-> <<>>],
          error |-> IF reply.error = "" THEN "Unknown error" ELSE reply.error]
    ELSE IF reply.kind = "timeout"
    THEN [success |-> FALSE, text |-> "", html |-> [nonempty |-> FALSE, anchors |-> <<>>],
          error |-> "Timeout"]
    ELSE [success |-> FALSE, text |-> "", html |-> [nonempty |-> FALSE, anchors |-> <<>>],
          error |-> reply.error]

(***************************************************************************)
(* SpecPure: the pure functions on inputs drawn from bounded sets.         *)
(***************************************************************************)
Phrases ==
    <<"backflow testing", "rpz", "Backflow Testing", "RPZ testing", "test report",
      "pvb", "plumbing", "irrigation backflow testing">>

RECURSIVE JoinWords(_)
\* " ".join(words)
JoinWords(words) ==
    IF Len(words) = 0 THEN ""
    ELSE IF Len(words) = 1 THEN words[1]
    ELSE words[1] \o " " \o JoinWords(Tail(words))

\* page texts: up to MaxPhrases phrases separated by blanks
Texts ==
    {JoinWords([i \in 1..Len(f) |-> Phrases[f[i]]]) :
        f \in UNION {[1..m -> 1..Len(Phrases)] : m \in 0..MaxPhrases}}

ScoreTable == [t \in Texts |-> score_text(t)]

TierProbeTerms == {"test report", "rpz", "backflow testing"}

WebsiteCells ==
    {NaN, Str(""), Str("  "), Str("example.com"), Str(" example.com/home "),
     Str("https://example.com"), Str("http://example.com/a"), Str("https://"),
     Str("http:///about"), Str("/services"), Str("?q=1"), Str("#top"),
     Str("[::1"), Str("https://[::1]/x"), Str("HTTP://Example.com")}

PxIdle == [op |-> "idle"]

ScoreText ==
    /\ px.op = "idle"
    /\ \E t1 \in Texts, t2 \in Texts :
        px' = [op |-> "score_text", text |-> t1, r |-> ScoreTable[t1],
               text2 |-> t2, r2 |-> ScoreTable[t2]]

\* verify_website's homepage branch: score the text, then assign the tier
ScoreTier ==
    /\ px.op = "idle"
    /\ \E t \in Texts, tt \in 1..MaxTestingThreshold :
        LET r == ScoreTable[t]
        IN  px' = [op |-> "score_tier", text |-> t, r |-> r, testing_threshold |-> tt,
                   tier |-> assign_tier(r.score, r.matched, tt)]

AssignTier ==
    /\ px.op = "idle"
    /\ \E score \in 0..SCORE_CAP, terms \in SUBSET TierProbeTerms,
       tt \in 1..MaxTestingThreshold :
        px' = [op |-> "assign_tier", score |-> score, terms |-> terms,
               testing_threshold |-> tt, tier |-> assign_tier(score, terms, tt)]

NormalizeUrl ==
    /\ px.op = "idle"
    /\ \E cell \in WebsiteCells :
        px' = [op |-> "normalize_url", cell |-> cell, out |-> normalize_url(cell)]

PureNext ==
    \/ ScoreText /\ UNCHANGED <<vw, ep, rt, ovars>>
    \/ ScoreTier /\ UNCHANGED <<vw, ep, rt, ovars>>
    \/ AssignTier /\ UNCHANGED <<vw, ep, rt, ovars>>
    \/ NormalizeUrl /\ UNCHANGED <<vw, ep, rt, ovars>>


(***************************************************************************)
(* SpecVerify: verify_website (03_verify_backflow.py) and verify_and_enrich *)
(* (03_verify_and_enrich.py, the same control flow) for one business.  The *)
(* page-fetch collaborator answers each request as it likes.               *)
(***************************************************************************)
MaxPagesArg == 3        \* largest --max-pages tried

EmptyHtml == [nonempty |-> FALSE, anchors |-> <<>>]

\* <a href> elements of the homepages tried
NavLinks ==
    <<[href |-> "/contact", text |-> "Contact"],
      [href |-> "/about", text |-> " Plumbing Repair "],
      [href |-> "https://other.com/backflow", text |-> "Backflow"],
      [href |-> "/services", text |-> "Our Services"],
      [href |-> "/", text |-> "Home services"],
      [href |-> "https://www.example.com/backflow-testing", text |-> "RPZ"],
      [href |-> "/services", text |-> "Services"]>>

HomeHtmls ==
    {EmptyHtml,
     [nonempty |-> TRUE, anchors |-> <<>>],
     [nonempty |-> TRUE, anchors |-> SubSeq(NavLinks, 1, 3)],
     [nonempty |-> TRUE, anchors |-> NavLinks]}

HomeTexts == {"", "plumbing", "rpz", "test report", "Backflow Testing rpz"}
InternalTexts == {"", "rpz", "backflow testing rpz"}
FetchErrors == {"", "net::ERR_NAME_NOT_RESOLVED"}

HomeReplies ==
    [kind : {"ok"}, text : HomeTexts, html : HomeHtmls, error : {""}]
    \cup [kind : {"unsuccessful", "exception"}, text : {""}, html : {EmptyHtml},
          error : FetchErrors]
    \cup [kind : {"timeout"}, text : {""}, html : {EmptyHtml}, error : {""}]

InternalReplies ==
    [kind : {"ok"}, text : InternalTexts, html : {EmptyHtml}, error : {""}]
    \cup [kind : {"timeout"}, text : {""}, html : {EmptyHtml}, error : {""}]

VerifyCells ==
    {NaN, Str(""), Str("  "), Str("https://"), Str("http:///about"), Str("[::1"),
     Str("?q=1"), Str(" example.com "), Str("https://example.com/")}

NewResult ==
    [backflow_score |-> 0, backflow_hits |-> {}, crawl_status |-> "OK",
     crawl_error |-> "", pages_crawled |-> 0, matched_on |-> "",
     best_evidence_url |-> "", tier |-> "none"]

VwIdle == [pc |-> "idle"]

VwInit ==
    \E cell \in VerifyCells, mp \in 1..MaxPagesArg, th \in 1..MaxThreshold,
       tt \in {1, TIER_TESTING_DEFAULT} :
        vw = [pc |-> "start", cell |-> cell, max_pages |-> mp, threshold |-> th,
              testing_threshold |-> tt, website |-> "", all_matched_terms |-> {},
              best_score |-> 0, best_url |-> "", score |-> 0, internal_links |-> <<>>,
              i |-> 0, fetched |-> <<>>, fetch_ok |-> <<>>, page_results |-> <<>>,
              found_links |-> <<>>, home_reply |-> [kind |-> "none"], result |-> NewResult]

\* lines 429-442: the result after the internal-page loop
\* (the status left as it is when the best score is below the threshold)
AfterInternal_status_kept(v) ==
    [v EXCEPT !.pc = "done",
              !.result = [v.result EXCEPT !.backflow_score = v.best_score,
                                          !.backflow_hits = v.all_matched_terms,
                                          !.tier = "none"]]

AfterInternal(v) ==
    LET r1 == [v.result EXCEPT !.backflow_score = v.best_score,
                               !.backflow_hits = v.all_matched_terms]
    IN  [v EXCEPT !.pc = "done",
                  !.result =
                      IF v.best_score >= v.threshold
                      THEN [r1 EXCEPT !.matched_on = IF v.score > 0 THEN "BOTH" ELSE "INTERNAL",
                                      !.best_evidence_url = v.best_url,
                                      !.tier = assign_tier(v.best_score, v.all_matched_terms,
                                                           v.testing_threshold)]
                      ELSE [r1 EXCEPT !.crawl_status = "NOT_RELEVANT", !.tier = "none"]]

\* lines 374-375, 420-421: the best per-page score so far
\* (the page scores added up across the pages)
BestScore_summed(best_score, page_score) == best_score + page_score

BestScore(best_score, page_score) ==
    IF page_score > best_score THEN page_score ELSE best_score

\* line 379: the homepage alone verifies the business
\* (the comparison with the threshold made strict)
HomepageVerifies_strict(score, threshold) == score > threshold

HomepageVerifies(score, threshold) == score >= threshold

\* lines 424-427: enough evidence, stop the internal-page loop
\* (a loop that never stops early)
EarlyExit_never(best_score, threshold) == FALSE

EarlyExit(best_score, threshold) == best_score >= threshold * 2

\* lines 407-409: a failed internal page is skipped (continue)
\* (a failed internal page ends the business as the homepage's failure does)
SkipFailedPage_fatal(v, last) ==
    [v EXCEPT !.pc = "done", !.result.crawl_status = "CRAWL_FAILED",
              !.result.tier = "none"]

SkipFailedPage(v, last) ==
    IF last THEN AfterInternal(v) ELSE [v EXCEPT !.i = @ + 1]

\* lines 362-367: the homepage fetch failed
\* (the failure is passed over and the business goes on as not relevant)
HomepageFailed_ignored(v, error) ==
    [v EXCEPT !.pc = "done", !.result.crawl_status = "NOT_RELEVANT",
              !.result.tier = "none"]

HomepageFailed(v, error) ==
    [v EXCEPT !.pc = "done",
              !.result.crawl_status = "CRAWL_FAILED",
              !.result.crawl_error = IF error = "" THEN "Unknown error" ELSE error,
              !.result.tier = "none"]

\* lines 332-351: normalise the website, NO_WEBSITE when there is none
VerifyStart ==
    /\ vw.pc = "start"
    /\ LET website == normalize_url(vw.cell)
       IN  vw' = IF ~website.ok
                 THEN [vw EXCEPT !.pc = "done", !.result.crawl_status = "NO_WEBSITE"]
                 ELSE [vw EXCEPT !.pc = "homepage", !.website = website.url,
                                 !.best_url = website.url]

\* lines 357-453: the homepage fetch returns
FetchHomepage ==
    /\ vw.pc = "homepage"
    /\ \E reply \in HomeReplies :
        LET got     == crawl_url(reply)
            scored  == score_text(got.text)
            v0      == [vw EXCEPT !.fetched = Append(@, vw.website),
                                  !.fetch_ok = Append(@, got.success),
                                  !.page_results = Append(@, scored),
                                  !.home_reply = reply]
            score   == scored.score
            v1      == [v0 EXCEPT !.result.pages_crawled = 1,
                                  !.score = score,
                                  !.best_score = BestScore(0, score),
                                  !.all_matched_terms = scored.matched]
        IN  vw' =
              IF ~got.success
              THEN HomepageFailed(v0, got.error)
              ELSE IF HomepageVerifies(score, vw.threshold)
              THEN [v1 EXCEPT !.pc = "done",
                              !.result.backflow_score = score,
                              !.result.backflow_hits = scored.matched,
                              !.result.matched_on = "HOMEPAGE",
                              !.result.best_evidence_url = vw.website,
                              !.result.tier = assign_tier(score, scored.matched,
                                                          vw.testing_threshold)]
              ELSE IF vw.max_pages > 1 /\ got.html.nonempty
              THEN LET links == extract_internal_links(got.html, vw.website,
                                                       vw.max_pages - 1)
                       loop  == SubSeq(links, 1, Min(vw.max_pages - 1, Len(links)))
                   IN  IF Len(loop) = 0 THEN AfterInternal(v1)
                       ELSE [v1 EXCEPT !.pc = "internal", !.internal_links = loop, !.i = 1,
                                       !.found_links =
                                           CollectLinks(got.html.anchors, vw.website)]
              ELSE [v1 EXCEPT !.pc = "done",
                              !.result.backflow_score = score,
                              !.result.backflow_hits = scored.matched,
                              !.result.crawl_status = "NOT_RELEVANT",
                              !.result.matched_on = "HOMEPAGE",
                              !.result.best_evidence_url = vw.website,
                              !.result.tier = "none"]

\* lines 402-427: the fetch of internal page i returns
FetchInternal ==
    /\ vw.pc = "internal"
    /\ \E reply \in InternalReplies :
        LET got    == crawl_url(reply)
            url    == vw.internal_links[vw.i].url
            scored == score_text(got.text)
            v0     == [vw EXCEPT !.fetched = Append(@, url),
                                 !.fetch_ok = Append(@, got.success),
                                 !.page_results = Append(@, scored)]
            last   == vw.i = Len(vw.internal_links)
            v1     == [v0 EXCEPT !.result.pages_crawled = @ + 1,
                                 !.all_matched_terms =
                                     IF scored.score > 0 THEN @ \cup scored.matched ELSE @,
                                 !.best_score = BestScore(@, scored.score),
                                 !.best_url =
                                     IF scored.score > vw.best_score THEN url ELSE @]
        IN  vw' =
              IF ~got.success
              THEN SkipFailedPage(v0, last)
              ELSE IF EarlyExit(v1.best_score, vw.threshold) \/ last
              THEN AfterInternal(v1)
              ELSE [v1 EXCEPT !.i = @ + 1]


(***************************************************************************)
(* Spec: the batch drivers.  main_async of the two verifiers, run() of the *)
(* two image-enrichment scripts: checkpoint, sinks, crash and restart.     *)
(***************************************************************************)
NumItems == 2           \* rows of the input table
MaxBatchSize == 2       \* largest --batch-size tried
MaxRuns == 2            \* process starts

THRESHOLD_DEFAULT == 2  \* --threshold

Drivers == {"verify_backflow", "verify_and_enrich", "enrich_images", "enrich_images_db"}
IsVerifier(d) == d \in {"verify_backflow", "verify_and_enrich"}

Range(seq) == {seq[k] : k \in 1..Len(seq)}

\* the input table: place_ids in file order
InputIds == [k \in 1..NumItems |-> k]

\* What a per-item task gives back.  Verifier: a verification record or an
\* exception; image enrichment: a result dict or an exception.
VerifyTaskOutcomes ==
    {[kind |-> "returned", crawl_status |-> "OK", backflow_score |-> 4, tier |-> "testing"],
     [kind |-> "returned", crawl_status |-> "NOT_RELEVANT", backflow_score |-> 1,
      tier |-> "none"],
     [kind |-> "raised", crawl_status |-> "", backflow_score |-> 0, tier |-> ""]}

ImageTaskOutcomes ==
    {[kind |-> "returned", status |-> "enriched", images_selected |-> 2],
     [kind |-> "returned", status |-> "no_images_passed", images_selected |-> 0],
     [kind |-> "raised", status |-> "", images_selected |-> 0]}

Pending == [kind |-> "pending"]

\* files
AbsentFile == [kind |-> "absent"]
TornFile == [kind |-> "torn"]
JsonFile(content) == [kind |-> "json", content |-> content]

FreshVerifierState ==
    [processed_count |-> 0, verified_count |-> 0, rejected_count |-> 0,
     testing_count |-> 0, service_count |-> 0, processed_place_ids |-> <<>>]

FreshImageState ==
    [processed_ids |-> <<>>, enriched_count |-> 0, no_image_count |-> 0,
     error_count |-> 0]

FreshState(d) == IF IsVerifier(d) THEN FreshVerifierState ELSE FreshImageState

\* load_checkpoint / load_state: the file's state when it exists and parses,
\* else a fresh state
load_checkpoint(d, file) ==
    IF file.kind = "json" THEN file.content ELSE FreshState(d)

\* state['processed_place_ids'] / state["processed_ids"]
ProcessedIds(d, st) == IF IsVerifier(d) THEN st.processed_place_ids ELSE st.processed_ids

\* 06 fetch_providers_needing_images (fetch_all): the providers with fewer than
\* two real images in the database
fetch_providers_needing_images(db) ==
    SelectSeq(InputIds, LAMBDA id : db[id] < 2)

\* the rows the run starts from: the input table, or the database query
Providers(d, db) ==
    IF d = "enrich_images_db" THEN fetch_providers_needing_images(db) ELSE InputIds

\* df[~df['place_id'].isin(processed_ids)] / remaining
Remaining(d, db, st) ==
    SelectSeq(Providers(d, db), LAMBDA id : id \notin Range(ProcessedIds(d, st)))

\* the current batch: df.iloc[i:i + batch_size]
Batch == SubSeq(rows_list, batch_start + 1, Min(batch_start + batch_size, Len(rows_list)))

NoHist ==
    [completed |-> {}, replay |-> {}, tasks |-> {}, outcome |-> {},
     ckpt_errors |-> {}, start_errors |-> {}, loaded |-> {}, crash_ckpt |-> {}, crash_clean |-> FALSE,
     first_rows |-> {}, after_crash |-> FALSE]

OrchInit ==
    /\ driver \in Drivers
    /\ batch_size \in 1..MaxBatchSize
    /\ run_no = 0 /\ resume = FALSE /\ pc = "idle"
    /\ rows_list = <<>> /\ batch_start = 0 /\ results = <<>> /\ state = <<>>
    /\ state_file = AbsentFile /\ tmp_file = AbsentFile
    /\ mem_kept = <<>> /\ mem_rejected = <<>>
    /\ sink_kept = <<>> /\ sink_rejected = <<>>
    /\ db_images = [id \in 1..NumItems |-> 0]
    /\ hist = NoHist

Running ==
    {"tasks", "record", "flush_enriched", "flush_rejected", "save", "saving", "sleep",
     "write_verified", "write_rejected", "report"}

\* the process is gone: everything it held in memory is lost
MemoryLost ==
    /\ rows_list' = <<>> /\ batch_start' = 0 /\ results' = <<>> /\ state' = <<>>
    /\ mem_kept' = <<>> /\ mem_rejected' = <<>>

\* main_async up to the batch loop (03: lines 716-754) / run() up to the batch
\* loop (05: lines 662-704, 06: lines 604-646)
StartRun ==
    /\ pc \in {"idle", "crashed", "aborted", "done"}
    /\ run_no < MaxRuns
    /\ \E r \in BOOLEAN :
        LET no_providers == driver = "enrich_images_db" /\ Len(Providers(driver, db_images)) = 0
            st        == IF r THEN load_checkpoint(driver, state_file) ELSE FreshState(driver)
            remaining == Remaining(driver, db_images, st)
            fresh     == ~r /\ ~no_providers
            unlinked  == fresh /\ ~IsVerifier(driver)
            carried   == r /\ state_file.kind = "json"
            after     == pc \in {"crashed", "aborted"}
        IN  /\ resume' = r
            /\ run_no' = run_no + 1
            /\ state' = st
            /\ state_file' = IF unlinked THEN AbsentFile ELSE state_file
            /\ sink_kept' = IF fresh /\ driver = "enrich_images" THEN <<>> ELSE sink_kept
            /\ sink_rejected' = IF fresh /\ driver = "enrich_images" THEN <<>> ELSE sink_rejected
            /\ rows_list' = IF no_providers THEN <<>> ELSE remaining
            /\ batch_start' = 0
            /\ results' = [k \in 1..Min(batch_size, Len(rows_list')) |-> Pending]
            /\ mem_kept' = <<>> /\ mem_rejected' = <<>>
            /\ pc' = IF Len(rows_list') = 0 THEN "done" ELSE "tasks"
                \* a run without --resume starts the work over
            /\ hist' = IF r
                       THEN [hist EXCEPT
                               !.replay = Range(rows_list') \cap hist.completed,
                               !.tasks = {},
                               !.outcome = {},
                               !.loaded = Range(ProcessedIds(driver, st)),
                               !.ckpt_errors = IF carried THEN @ ELSE {},
                               !.start_errors = IF carried THEN hist.ckpt_errors ELSE {},
                               !.crash_ckpt = IF after THEN @ ELSE {},
                               !.crash_clean = after /\ @,
                               !.first_rows = IF after THEN @ ELSE {},
                               !.after_crash = after]
                       ELSE NoHist
    /\ UNCHANGED <<driver, batch_size, tmp_file, db_images>>

ERROR_RESULT == [kind |-> "returned", crawl_status |-> "ERROR", backflow_score |-> 0,
                 tier |-> "none", raised |-> TRUE]

\* process_batch of verify_backflow: the exception of a task leaves the loop,
\* process_batch, main_async and the process
VerifyItem_backflow(k, out) ==
    IF out.kind = "raised"
    THEN /\ pc' = "aborted"
         /\ MemoryLost
    ELSE /\ results' = [results EXCEPT ![k] = out]
         /\ pc' = IF k = Len(results) THEN "record" ELSE "tasks"
         /\ UNCHANGED <<rows_list, batch_start, state, mem_kept, mem_rejected>>

\* process_batch of verify_and_enrich: try / except Exception around the task
VerifyItem_enrich(k, out) ==
    /\ results' = [results EXCEPT ![k] = IF out.kind = "raised" THEN ERROR_RESULT ELSE out]
    /\ pc' = IF k = Len(results) THEN "record" ELSE "tasks"
    /\ UNCHANGED <<rows_list, batch_start, state, mem_kept, mem_rejected>>

\* process_batch (03_verify_backflow.py 456-492, 03_verify_and_enrich.py 609-649):
\* the next row of the batch, in order
VerifyItem ==
    /\ pc = "tasks" /\ IsVerifier(driver)
    /\ \E out \in VerifyTaskOutcomes :
        LET k == CHOOSE j \in 1..Len(results) :
                    results[j] = Pending /\ \A h \in 1..(j - 1) : results[h] # Pending
        IN  /\ IF driver = "verify_backflow" THEN VerifyItem_backflow(k, out)
               ELSE VerifyItem_enrich(k, out)
            /\ hist' = [hist EXCEPT !.completed = @ \cup {Batch[k]},
                                    !.tasks = @ \cup {Batch[k]}]
    /\ UNCHANGED <<driver, batch_size, run_no, resume, state_file, tmp_file, sink_kept,
                   sink_rejected, db_images>>

\* asyncio.gather(*tasks, return_exceptions=True) (05: 712-718, 06: 650-656): the
\* tasks of the batch finish in any order, an exception is kept as a result
EnrichItem ==
    /\ pc = "tasks" /\ ~IsVerifier(driver)
    /\ \E k \in 1..Len(results), out \in ImageTaskOutcomes :
        /\ results[k] = Pending
        /\ results' = [results EXCEPT ![k] = out]
        /\ pc' = IF \A j \in 1..Len(results) : j # k => results[j] # Pending
                 THEN "record" ELSE "tasks"
        /\ hist' = [hist EXCEPT !.completed = @ \cup {Batch[k]},
                                !.tasks = @ \cup {Batch[k]}]
    /\ UNCHANGED <<driver, batch_size, run_no, resume, rows_list, batch_start, state,
                   state_file, tmp_file, mem_kept, mem_rejected, sink_kept, sink_rejected,
                   db_images>>

\* args.threshold: the threshold verify_website was given, the default when
\* the per-business steps are not modelled
ArgsThreshold == IF vw.pc = "idle" THEN THRESHOLD_DEFAULT ELSE vw.threshold

\* a verification record is kept when its status is OK and its score reaches
\* the threshold
IsVerified(result) ==
    result.crawl_status = "OK" /\ result.backflow_score >= ArgsThreshold

\* full_result = {**row.to_dict(), **result}
VerifierRow(id, result) ==
    [place_id |-> id, crawl_status |-> result.crawl_status,
     backflow_score |-> result.backflow_score, tier |-> result.tier]

ImageRow(id, status, n) ==
    [place_id |-> id, enrichment_status |-> status, images_selected |-> n]

\* a result loop that never records an id as processed
MarkProcessed_dropped(d, st, id) == st

\* state['processed_count'] += 1; state['processed_place_ids'].append(place_id)
\* / state["processed_ids"].append(pid)
MarkProcessed(d, st, id) ==
    IF IsVerifier(d)
    THEN [st EXCEPT !.processed_count = @ + 1, !.processed_place_ids = Append(@, id)]
    ELSE [st EXCEPT !.processed_ids = Append(@, id)]

\* the result loop of the verifiers' main_async, from result k on
RECURSIVE RecordVerifier(_, _)
RecordVerifier(k, acc) ==
    IF k > Len(results) THEN acc
    ELSE LET result == results[k]
             id     == Batch[k]
             row    == VerifierRow(id, result)
             st     == acc.state
             st1    == IF IsVerified(result)
                       THEN [st EXCEPT !.verified_count = @ + 1,
                                       !.testing_count = @ + (IF result.tier = "testing" THEN 1 ELSE 0),
                                       !.service_count = @ + (IF result.tier = "service" THEN 1 ELSE 0)]
                       ELSE [st EXCEPT !.rejected_count = @ + 1]
             st2    == MarkProcessed(driver, st1, id)
         IN  RecordVerifier(k + 1,
                [state    |-> st2,
                 kept     |-> IF IsVerified(result) THEN Append(acc.kept, row) ELSE acc.kept,
                 rejected |-> IF IsVerified(result) THEN acc.rejected
                              ELSE Append(acc.rejected, row),
                 outcome  |-> acc.outcome \cup
                              {<<id, IF result.crawl_status = "ERROR" THEN "error"
                                     ELSE IF IsVerified(result) THEN "verified"
                                     ELSE "rejected">>},
                 db       |-> acc.db])

\* the result loop of 05 _process_batch, from result k on
RECURSIVE RecordImages(_, _)
RecordImages(k, acc) ==
    IF k > Len(results) THEN acc
    ELSE LET raised == results[k].kind = "raised"
             id     == Batch[k]
             status == IF raised THEN "error" ELSE results[k].status
             n      == IF raised THEN 0 ELSE results[k].images_selected
             row    == ImageRow(id, status, n)
             st     == acc.state
             st1    == IF raised THEN [st EXCEPT !.error_count = @ + 1] ELSE st
             st2    == IF n > 0 THEN [st1 EXCEPT !.enriched_count = @ + 1]
                       ELSE [st1 EXCEPT !.no_image_count = @ + 1]
             st3    == MarkProcessed(driver, st2, id)
         IN  RecordImages(k + 1,
                [state    |-> st3,
                 kept     |-> IF n > 0 THEN Append(acc.kept, row) ELSE acc.kept,
                 rejected |-> IF n > 0 THEN acc.rejected ELSE Append(acc.rejected, row),
                 outcome  |-> acc.outcome \cup
                              {<<id, IF raised THEN "error"
                                     ELSE IF n > 0 THEN "enriched" ELSE "no_image">>},
                 db       |-> acc.db])

\* the result loop of 06 _process_batch, from result k on; failed is the set of
\* providers whose database update fails
RECURSIVE RecordImagesDb(_, _, _)
RecordImagesDb(k, acc, failed) ==
    IF k > Len(results) THEN acc
    ELSE LET raised   == results[k].kind = "raised"
             id       == Batch[k]
             enriched == ~raised /\ results[k].status = "enriched"
                                 /\ results[k].images_selected > 0
             ok       == id \notin failed
             st       == acc.state
             st1      == IF raised THEN [st EXCEPT !.error_count = @ + 1]
                         ELSE IF enriched /\ ok THEN [st EXCEPT !.enriched_count = @ + 1]
                         ELSE IF enriched THEN [st EXCEPT !.error_count = @ + 1]
                         ELSE [st EXCEPT !.no_image_count = @ + 1]
             st2      == MarkProcessed(driver, st1, id)
         IN  RecordImagesDb(k + 1,
                [state    |-> st2,
                 kept     |-> acc.kept,
                 rejected |-> acc.rejected,
                 outcome  |-> acc.outcome \cup
                              {<<id, IF raised \/ (enriched /\ ~ok) THEN "error"
                                     ELSE IF enriched THEN "enriched" ELSE "no_image">>},
                 db       |-> IF enriched /\ ok
                              THEN [acc.db EXCEPT ![id] = results[k].images_selected]
                              ELSE acc.db],
                failed)

\* the loop over the results of the batch (03: 771-785 / 832-844, 05: 720-749,
\* 06: 658-680)
RecordBatch ==
    /\ pc = "record"
    /\ \E failed \in SUBSET (IF driver = "enrich_images_db"
                             THEN {Batch[k] : k \in {j \in 1..Len(results) :
                                       results[j].kind = "returned" /\ results[j].status = "enriched"}}
                             ELSE {}) :
        LET acc0 == [state |-> state, kept |-> mem_kept, rejected |-> mem_rejected,
                     outcome |-> {}, db |-> db_images]
            acc  == IF IsVerifier(driver) THEN RecordVerifier(1, acc0)
                    ELSE IF driver = "enrich_images" THEN RecordImages(1, acc0)
                    ELSE RecordImagesDb(1, acc0, failed)
        IN  /\ state' = acc.state
            /\ mem_kept' = acc.kept
            /\ mem_rejected' = acc.rejected
            /\ db_images' = acc.db
            /\ hist' = [hist EXCEPT !.outcome = acc.outcome]
    /\ pc' = IF driver = "enrich_images" THEN "flush_enriched" ELSE "save"
    /\ UNCHANGED <<driver, batch_size, run_no, resume, rows_list, batch_start, results,
                   state_file, tmp_file, sink_kept, sink_rejected>>

\* 05 append_rows(enriched_rows, output)
FlushEnriched ==
    /\ pc = "flush_enriched"
    /\ sink_kept' = sink_kept \o mem_kept
    /\ pc' = "flush_rejected"
    /\ UNCHANGED <<driver, batch_size, run_no, resume, rows_list, batch_start, results, state,
                   state_file, tmp_file, mem_kept, mem_rejected, sink_rejected, db_images, hist>>

\* 05 append_rows(rejected_rows, rejected); enriched_rows.clear();
\* rejected_rows.clear()
FlushRejected ==
    /\ pc = "flush_rejected"
    /\ sink_rejected' = sink_rejected \o mem_rejected
    /\ mem_kept' = <<>> /\ mem_rejected' = <<>>
    /\ pc' = "save"
    /\ UNCHANGED <<driver, batch_size, run_no, resume, rows_list, batch_start, results, state,
                   state_file, tmp_file, sink_kept, db_images, hist>>

\* save_checkpoint opens the state file itself for writing, which truncates
\* it; save_state opens the temporary file
OpenForWrite(d) ==
    IF IsVerifier(d) THEN [state_file |-> TornFile, tmp_file |-> tmp_file]
    ELSE [state_file |-> state_file, tmp_file |-> TornFile]

\* save_checkpoint / save_state: open(..., 'w')
SaveBegin ==
    /\ pc = "save"
    /\ state_file' = OpenForWrite(driver).state_file
    /\ tmp_file' = OpenForWrite(driver).tmp_file
    /\ pc' = "saving"
    /\ UNCHANGED <<driver, batch_size, run_no, resume, rows_list, batch_start, results, state,
                   mem_kept, mem_rejected, sink_kept, sink_rejected, db_images, hist>>

MoreBatches == batch_start + batch_size < Len(rows_list)

\* save_checkpoint / save_state: json.dump, close, and for save_state
\* tmp.replace(state_file); then the end of the loop body.  The image drivers
\* go straight to the next batch.
SaveEnd ==
    /\ pc = "saving"
    /\ state_file' = JsonFile(state)
    /\ tmp_file' = IF IsVerifier(driver) THEN tmp_file ELSE AbsentFile
    /\ hist' = [hist EXCEPT !.ckpt_errors =
                   @ \cup {o[1] : o \in {x \in hist.outcome : x[2] = "error"}}]
    /\ IF IsVerifier(driver)
       THEN /\ pc' = IF MoreBatches THEN "sleep" ELSE "write_verified"
            /\ UNCHANGED <<batch_start, results>>
       ELSE IF MoreBatches
       THEN /\ pc' = "tasks"
            /\ batch_start' = batch_start + batch_size
            /\ results' = [k \in 1..Min(batch_size, Len(rows_list) - batch_start') |-> Pending]
       ELSE /\ pc' = IF driver = "enrich_images" THEN "report" ELSE "done"
            /\ UNCHANGED <<batch_start, results>>
    /\ UNCHANGED <<driver, batch_size, run_no, resume, rows_list, state, mem_kept,
                   mem_rejected, sink_kept, sink_rejected, db_images>>

\* the verifiers' asyncio.sleep(args.sleep) between two batches
Sleep ==
    /\ pc = "sleep"
    /\ batch_start' = batch_start + batch_size
    /\ results' = [k \in 1..Min(batch_size, Len(rows_list) - batch_start') |-> Pending]
    /\ pc' = "tasks"
    /\ UNCHANGED <<driver, batch_size, run_no, resume, rows_list, state, state_file, tmp_file,
                   mem_kept, mem_rejected, sink_kept, sink_rejected, db_images, hist>>

\* verified_df.to_csv(VERIFIED_CSV) when there are verified results
WriteVerified ==
    /\ pc = "write_verified"
    /\ sink_kept' = IF mem_kept # <<>> THEN mem_kept ELSE sink_kept
    /\ pc' = "write_rejected"
    /\ UNCHANGED <<driver, batch_size, run_no, resume, rows_list, batch_start, results, state,
                   state_file, tmp_file, mem_kept, mem_rejected, sink_rejected, db_images, hist>>

\* rejected_df.to_csv(REJECTED_CSV) when there are rejected results, then the
\* report
WriteRejected ==
    /\ pc = "write_rejected"
    /\ sink_rejected' = IF mem_rejected # <<>> THEN mem_rejected ELSE sink_rejected
    /\ pc' = "done"
    /\ UNCHANGED <<driver, batch_size, run_no, resume, rows_list, batch_start, results, state,
                   state_file, tmp_file, mem_kept, mem_rejected, sink_kept, db_images, hist>>

\* 05 write_report
WriteReport ==
    /\ pc = "report"
    /\ pc' = "done"
    /\ UNCHANGED <<driver, batch_size, run_no, resume, rows_list, batch_start, results, state,
                   state_file, tmp_file, mem_kept, mem_rejected, sink_kept, sink_rejected,
                   db_images, hist>>

CheckpointIds == IF state_file.kind = "json"
                 THEN Range(ProcessedIds(driver, state_file.content)) ELSE {}

\* the process is killed (crash, power loss, Ctrl-C) at any point of a run
Crash ==
    /\ pc \in Running
    /\ pc' = "crashed"
    /\ MemoryLost
    /\ hist' = [hist EXCEPT
                  !.crash_ckpt = CheckpointIds,
                  !.crash_clean = /\ state_file.kind = "json"
                                  /\ CheckpointIds # {}
                                  /\ \/ pc = "sleep"
                                     \/ pc = "tasks" /\ \A k \in 1..Len(results) :
                                                            results[k] = Pending,
                  !.first_rows = Range(mem_kept) \cup Range(mem_rejected)
                                 \cup Range(sink_kept) \cup Range(sink_rejected)]
    /\ UNCHANGED <<driver, batch_size, run_no, resume, state_file, tmp_file, sink_kept,
                   sink_rejected, db_images>>

\* process_batch, lines 475-490: verify_website returned for the only row of
\* the batch, its result is merged with the row and appended
VerifyDeliver ==
    /\ vw.pc = "done" /\ pc = "tasks" /\ results[1] = Pending
    /\ results' = <<[kind |-> "returned", crawl_status |-> vw.result.crawl_status,
                     backflow_score |-> vw.result.backflow_score,
                     tier |-> vw.result.tier]>>
    /\ pc' = "record"
    /\ hist' = [hist EXCEPT !.completed = @ \cup {Batch[1]}, !.tasks = @ \cup {Batch[1]}]
    /\ UNCHANGED <<driver, batch_size, run_no, resume, rows_list, batch_start, state,
                   state_file, tmp_file, mem_kept, mem_rejected, sink_kept, sink_rejected,
                   db_images>>

\* SpecVerify: one verifier run over a single row, from verify_website to the
\* checkpoint and the output files
VerifyNext ==
    \/ (VerifyStart /\ UNCHANGED <<px, ep, rt, ovars>>)
    \/ (FetchHomepage /\ UNCHANGED <<px, ep, rt, ovars>>)
    \/ (FetchInternal /\ UNCHANGED <<px, ep, rt, ovars>>)
    \/ (VerifyDeliver /\ UNCHANGED <<px, vw, ep, rt>>)
    \/ (RecordBatch /\ UNCHANGED <<px, vw, ep, rt>>)
    \/ (SaveBegin /\ UNCHANGED <<px, vw, ep, rt>>)
    \/ (SaveEnd /\ UNCHANGED <<px, vw, ep, rt>>)
    \/ (WriteVerified /\ UNCHANGED <<px, vw, ep, rt>>)
    \/ (WriteRejected /\ UNCHANGED <<px, vw, ep, rt>>)

Next ==
    \/ (StartRun /\ UNCHANGED <<px, vw, ep, rt>>)
    \/ (VerifyItem /\ UNCHANGED <<px, vw, ep, rt>>)
    \/ (EnrichItem /\ UNCHANGED <<px, vw, ep, rt>>)
    \/ (RecordBatch /\ UNCHANGED <<px, vw, ep, rt>>)
    \/ (FlushEnriched /\ UNCHANGED <<px, vw, ep, rt>>)
    \/ (FlushRejected /\ UNCHANGED <<px, vw, ep, rt>>)
    \/ (SaveBegin /\ UNCHANGED <<px, vw, ep, rt>>)
    \/ (SaveEnd /\ UNCHANGED <<px, vw, ep, rt>>)
    \/ (Sleep /\ UNCHANGED <<px, vw, ep, rt>>)
    \/ (WriteVerified /\ UNCHANGED <<px, vw, ep, rt>>)
    \/ (WriteRejected /\ UNCHANGED <<px, vw, ep, rt>>)
    \/ (WriteReport /\ UNCHANGED <<px, vw, ep, rt>>)
    \/ (Crash /\ UNCHANGED <<px, vw, ep, rt>>)


(***************************************************************************)
(* Image pipeline: enrich_provider of crawler/05_enrich_images.py (and the *)
(* same function of crawler/06_enrich_images_db.py), one asyncio task per  *)
(* business of a batch.  A step of a task runs from one await to the next. *)
(***************************************************************************)
MAX_CANDIDATES == 6
VISION_BATCH_SIZE == 3
MAX_SELECTED == 3
MAX_PAGES == 4
VISION_CONCURRENCY == 2

MaxImages == 4          \* <img> tags on the largest page
MaxEnrichBatch == 3     \* largest batch of concurrent enrich_provider tasks

\* list[:n]
Take(seq, n) == SubSeq(seq, 1, Min(n, Len(seq)))

\* Path(urlparse(url).path).suffix: the text from the last dot of the last
\* path component, "" without one
Suffix(url) ==
    LET LastIndexOf(s, c) ==
            LET at == {i \in 1..Len(s) : SubSeq(s, i, i) = c}
            IN  IF at = {} THEN 0 ELSE CHOOSE i \in at : \A j \in at : j <= i
        name == SubSeq(url, LastIndexOf(url, "/") + 1, Len(url))
        dot == LastIndexOf(name, ".")
    IN  IF dot <= 1 \/ dot = Len(name) THEN "" ELSE SubSeq(name, dot, Len(name))

\* the literal alternatives of JUNK_URL_RE; \bads?\b is left out, no URL of
\* the model contains the word
JUNK_URL_TERMS ==
    {"logo", "favicon", "icon", "sprite", "badge", "social", "payment", "map",
     "avatar", "placeholder", "loading", "spinner", "arrow", "bullet",
     "star-rating", "flag", "1x1", "pixel", "tracking", "analytics", "banner",
     "facebook", "twitter", "instagram", "youtube", "linkedin", "pinterest",
     "yelp", "tiktok", "background", "bg-", "bg_", "pattern", "texture",
     "separator", "divider", "header-", "header_", "footer-", "footer_",
     "nav-", "nav_", "menu-", "menu_", "sidebar-", "sidebar_"}

JUNK_EXTENSIONS == {".svg", ".ico", ".gif", ".bmp", ".tiff"}

\* is_junk_url; _dim_too_small is FALSE for the URLs of the model, whose
\* names carry no "<w>x<h>" dimension hint
is_junk_url(url) ==
    \/ url = ""
    \/ StartsWith(url, "data:")
    \/ Lower(Suffix(url)) \in JUNK_EXTENSIONS
    \/ \E term \in JUNK_URL_TERMS : Contains(term, Lower(url))

RECURSIVE heuristic_filter(_, _)
\* heuristic_filter: junk removed, duplicates removed, order kept; `seen`
\* is its local set, empty at the call
heuristic_filter(urls, seen) ==
    IF urls = <<>> THEN <<>>
    ELSE IF Head(urls) \in seen THEN heuristic_filter(Tail(urls), seen)
    ELSE (IF is_junk_url(Head(urls)) THEN <<>> ELSE <<Head(urls)>>)
             \o heuristic_filter(Tail(urls), seen \cup {Head(urls)})

\* a JSON value of a classifier response with its Python type t ("bool",
\* "int", "str"; "absent" stands for a key the dict does not have)
Json(t, b, n, s) == [t |-> t, b |-> b, n |-> n, s |-> s]

\* an element of the response array: a dict with its "relevant" and
\* "confidence" entries, or a value of type t that is no dict
JDict(relevant, confidence) ==
    [t |-> "dict", relevant |-> relevant, confidence |-> confidence]
JScalar(t) ==
    [t |-> t, relevant |-> Json("absent", FALSE, 0, ""),
     confidence |-> Json("absent", FALSE, 0, "")]

\* dict.get(key, default)
Get(entry, default) == IF entry.t = "absent" THEN default ELSE entry

\* bool(x)
Truthy(j) ==
    CASE j.t = "bool" -> j.b
      [] j.t = "int" -> j.n # 0
      [] j.t = "str" -> j.s # ""
      [] OTHER -> FALSE

\* int(x) raises ValueError on a string that is no numeral; the strings of
\* the model are words
IntRaises(j) == j.t = "str"
IntValue(j) == IF j.t = "bool" THEN (IF j.b THEN 1 ELSE 0) ELSE j.n

\* the verdict vision_verify_batch puts where it has none from the classifier
PessimisticVerdict == JDict(Json("bool", FALSE, 0, ""), Json("int", FALSE, 0, ""))

\* how a classifier call ends.  kind "raise": messages.create raised; "text":
\* it returned text that json.loads rejects; "json": the text parsed, to the
\* list elems (is_list) or to the single value elems[1]; "none": no call yet
Reply(kind, is_list, elems) == [kind |-> kind, is_list |-> is_list, elems |-> elems]

\* verdicts padded to n
Pad(verdicts, n) ==
    verdicts \o [k \in 1..(n - Len(verdicts)) |-> PessimisticVerdict]

\* vision_verify_batch, after the call returned `reply`
vision_verify_batch(image_data, reply) ==
    IF image_data = <<>> THEN <<>>
    ELSE IF reply.kind # "json" THEN [k \in 1..Len(image_data) |-> PessimisticVerdict]
    ELSE Take(Pad(reply.elems, Len(image_data)), Len(image_data))

\* the acceptance test of the selection loop
Accepts(verdict, confidence, threshold, selected) ==
    /\ Truthy(Get(verdict.relevant, Json("bool", FALSE, 0, "")))
    /\ confidence >= threshold
    /\ Len(selected) < MAX_SELECTED

RECURSIVE SelectLoop(_, _, _, _, _)
\* `for (url, _, _), verdict in zip(image_data, verdicts)`: the selected list,
\* or raised when verdict.get (AttributeError on a value that is no dict) or
\* int() raises
SelectLoop(image_data, verdicts, k, threshold, selected) ==
    IF k > Min(Len(image_data), Len(verdicts)) THEN [raised |-> FALSE, selected |-> selected]
    ELSE LET verdict == verdicts[k]
             entry == Get(verdict.confidence, Json("int", FALSE, 0, ""))
         IN  IF verdict.t # "dict" \/ IntRaises(entry)
             THEN [raised |-> TRUE, selected |-> selected]
             ELSE SelectLoop(image_data, verdicts, k + 1, threshold,
                      IF Accepts(verdict, IntValue(entry), threshold, selected)
                      THEN Append(selected, [url |-> image_data[k],
                                             confidence |-> IntValue(entry),
                                             verdict |-> verdict])
                      ELSE selected)

\* every business that reached stage C counted as enriched
FinalStatus_always_enriched(selected) == "enriched"

\* the status of a business whose candidates went through stage C
FinalStatus(selected) ==
    IF selected # <<>> THEN "enriched" ELSE "no_images_passed"

\* top of the stage C loop for sub-batch `bs`, up to the download gather;
\* after the loop "Fill output" and return
\* (a loop without the break on the evaluated and selected budgets)
LoopTop_no_break(it, bs) ==
    IF bs >= Len(it.candidates)
    THEN [it EXCEPT !.pc = "done", !.status = FinalStatus(it.selected)]
    ELSE [it EXCEPT !.pc = "download", !.batch_start = bs]

LoopTop(it, bs) ==
    IF \/ bs >= Len(it.candidates)
       \/ it.evaluated >= MAX_CANDIDATES
       \/ Len(it.selected) >= MAX_SELECTED
    THEN [it EXCEPT !.pc = "done", !.status = FinalStatus(it.selected)]
    ELSE [it EXCEPT !.pc = "download", !.batch_start = bs]

\* stage B and the entry of stage C
StageB(it, args) ==
    LET photo == it.row.photo
        urls == IF it.candidate_urls = <<>> /\ photo # "" /\ StartsWith(photo, "http")
                THEN <<photo>> ELSE it.candidate_urls
        candidates == Take(heuristic_filter(urls, {}), MAX_CANDIDATES)
        b == [it EXCEPT !.candidate_urls = urls, !.candidates = candidates,
                        !.images_found = Len(candidates)]
    IN  IF candidates = <<>> THEN [b EXCEPT !.pc = "done", !.status = "no_candidates"]
        ELSE IF args.dry_run
             THEN [b EXCEPT !.pc = "done", !.status = "dry_run",
                            !.evaluated = Len(candidates)]
             ELSE LoopTop(b, 0)

RECURSIVE NextPage(_, _, _)
\* `for page_url in pages_to_crawl[:MAX_PAGES]` from position k of the
\* slice (a copy made when the loop starts), up to the next crawl_page
NextPage(it, k, args) ==
    IF k > Len(it.snapshot) THEN StageB(it, args)
    ELSE IF it.snapshot[k] \in it.crawled THEN NextPage(it, k + 1, args)
    ELSE [it EXCEPT !.pc = "crawl", !.k = k, !.crawled = @ \cup {it.snapshot[k]},
                    !.fetched = Append(@, it.snapshot[k])]

RECURSIVE AppendLinks(_, _, _, _)
\* the links of a page appended to pages_to_crawl while it is short
AppendLinks(pages, links, k, crawled) ==
    IF k > Len(links) THEN pages
    ELSE AppendLinks(IF links[k] \notin crawled /\ Len(pages) < MAX_PAGES
                     THEN Append(pages, links[k]) ELSE pages,
                     links, k + 1, crawled)

\* what crawl_page returns: None, or html, given as what
\* extract_images_from_html (imgs) and extract_service_links (links) find
NoHtml == [ok |-> FALSE, imgs |-> <<>>, links |-> <<>>]
Html(imgs, links) == [ok |-> TRUE, imgs |-> imgs, links |-> links]

\* a new task of the gather
NewTask(row) ==
    [pc |-> "start", row |-> row, pages_to_crawl |-> <<>>, snapshot |-> <<>>, k |-> 0,
     crawled |-> {}, candidate_urls |-> <<>>, candidates |-> <<>>, images_found |-> 0,
     batch_start |-> 0, image_data |-> <<>>, evaluated |-> 0, selected |-> <<>>,
     status |-> "pending", fetched |-> <<>>, calls |-> 0,
     reply |-> Reply("none", FALSE, <<>>)]

\* enrich_provider from its first line to the first await
EnrichStart(i) ==
    LET it == ep.items[i]
        website == it.row.website
        best_evidence == it.row.best_evidence
        pages == IF best_evidence # "" /\ best_evidence # website
                 THEN <<website, best_evidence>> ELSE <<website>>
    IN  /\ it.pc = "start"
        /\ ep' = [ep EXCEPT !.items[i] =
                    IF website # "" /\ ~ep.args.no_crawl
                    THEN NextPage([it EXCEPT !.pages_to_crawl = pages,
                                             !.snapshot = Take(pages, MAX_PAGES)],
                                  1, ep.args)
                    ELSE StageB(it, ep.args)]

\* crawl_page returns (None when the fetch failed): the rest of the loop body
CrawlReturn(i, replies) ==
    LET it == ep.items[i]
    IN  /\ it.pc = "crawl"
        /\ \E html \in replies :
             LET pages == IF Len(it.pages_to_crawl) < MAX_PAGES
                          THEN AppendLinks(it.pages_to_crawl, html.links, 1, it.crawled)
                          ELSE it.pages_to_crawl
             IN  ep' = [ep EXCEPT !.items[i] =
                          IF ~html.ok THEN NextPage(it, it.k + 1, ep.args)
                          ELSE NextPage([it EXCEPT !.candidate_urls = @ \o html.imgs,
                                                   !.pages_to_crawl = pages],
                                        it.k + 1, ep.args)]

RECURSIVE Keep(_, _, _)
\* the urls of seq at the positions of `keep`, in order
Keep(seq, k, keep) ==
    IF k > Len(seq) THEN <<>>
    ELSE (IF k \in keep THEN <<seq[k]>> ELSE <<>>) \o Keep(seq, k + 1, keep)

\* the downloads of a sub-batch return; `ok` are the positions downloaded
DownloadReturn(i, outcomes) ==
    LET it == ep.items[i]
        batch_urls == SubSeq(it.candidates, it.batch_start + 1,
                             Min(it.batch_start + VISION_BATCH_SIZE, Len(it.candidates)))
    IN  /\ it.pc = "download"
        /\ \E ok \in outcomes :
             LET image_data == Keep(batch_urls, 1, ok)
                 got == [it EXCEPT !.image_data = image_data,
                                   !.reply = Reply("none", FALSE, <<>>)]
             IN  ep' = [ep EXCEPT !.items[i] =
                          IF image_data = <<>>
                          THEN LoopTop(got, it.batch_start + VISION_BATCH_SIZE)
                          ELSE [got EXCEPT !.pc = "acquire"]]

\* `async with semaphore`: a free permit is taken and messages.create starts
Acquire(i) ==
    LET it == ep.items[i]
    IN  /\ it.pc = "acquire"
        /\ ep.semaphore > 0
        /\ ep' = [ep EXCEPT !.semaphore = @ - 1,
                            !.items[i] = [it EXCEPT !.pc = "vision", !.calls = @ + 1]]

\* messages.create returns or raises: the permit is released, the verdicts
\* go through the selection loop and the task runs on to its next await
VisionReturn(i, replies) ==
    LET it == ep.items[i]
    IN  /\ it.pc = "vision"
        /\ \E reply \in replies :
             LET verdicts == vision_verify_batch(it.image_data, reply)
                 loop == SelectLoop(it.image_data, verdicts, 1,
                                    ep.args.vision_threshold, it.selected)
                 seen == [it EXCEPT !.evaluated = @ + Len(it.image_data),
                                    !.reply = reply, !.selected = loop.selected]
             IN  ep' = [ep EXCEPT
                          !.semaphore = @ + 1,
                          !.items[i] = IF loop.raised THEN [seen EXCEPT !.pc = "raised"]
                                       ELSE LoopTop(seen, it.batch_start + VISION_BATCH_SIZE)]

(***************************************************************************)
(* Inputs of the image pipeline.                                           *)
(***************************************************************************)
Website == "https://a.test"
ServicesPage == "https://a.test/services"
ImageUrl(k) ==
    "https://a.test/img/van" \o <<"1", "2", "3", "4", "5", "6", "7", "8", "9">>[k] \o ".jpg"

\* rows of the input table: website, best_evidence_url, photo
EnrichRows ==
    {[website |-> w, best_evidence |-> b, photo |-> p] :
        w \in {"", Website}, b \in {"", ServicesPage},
        p \in {"", "https://maps.test/p/photo.jpg"}}

\* what crawl_page can return: for the homepage nothing, a page with two
\* photos, a logo and a link, or a page with MaxImages photos; for another
\* page nothing, or a page with junk images and two links
PageReplies(page_url) ==
    IF page_url = Website
    THEN {NoHtml,
          Html(<<ImageUrl(1), "https://a.test/img/logo.png", ImageUrl(1), ImageUrl(2)>>,
               <<ServicesPage>>),
          Html([k \in 1..MaxImages |-> ImageUrl(k)], <<>>)}
    ELSE {NoHtml,
          Html(<<"https://a.test/img/logo.png", "https://a.test/img/crew.svg">>,
               <<ServicesPage, "https://a.test/gallery">>)}

\* values of --vision-threshold
VisionThresholds == {60, 75}

\* elements of a classifier response: relevant with confidence 90 and 70,
\* not relevant, "relevant": "false", "confidence": "high", and a string
\* in the place of a verdict
Verdicts ==
    {JDict(Json("bool", TRUE, 0, ""), Json("int", FALSE, 90, "")),
     JDict(Json("bool", TRUE, 0, ""), Json("int", FALSE, 70, "")),
     JDict(Json("bool", FALSE, 0, ""), Json("int", FALSE, 95, "")),
     JDict(Json("str", FALSE, 0, "false"), Json("int", FALSE, 90, "")),
     JDict(Json("bool", TRUE, 0, ""), Json("str", FALSE, 0, "high")),
     JScalar("str")}

\* what a classifier call about n images can come to: an error, text that is
\* no JSON, one JSON value, or a JSON array of n verdicts, one less or one more
VisionReplies(n) ==
    {Reply("raise", FALSE, <<>>), Reply("text", FALSE, <<>>)}
        \cup {Reply("json", FALSE, <<v>>) : v \in Verdicts}
        \cup {Reply("json", TRUE, elems) :
                 elems \in UNION {[1..m -> Verdicts] : m \in (n - 1)..(n + 1)}}

EpIdle == [items |-> <<>>, semaphore |-> 0]

\* SpecEnrich: the task of one business, every input
EnrichNext ==
    \/ (\E i \in 1..Len(ep.items) : EnrichStart(i)) /\ UNCHANGED <<px, vw, rt, ovars>>
    \/ (\E i \in 1..Len(ep.items) :
           CrawlReturn(i, PageReplies(ep.items[i].snapshot[ep.items[i].k])))
         /\ UNCHANGED <<px, vw, rt, ovars>>
    \/ (\E i \in 1..Len(ep.items) : DownloadReturn(i, SUBSET (1..VISION_BATCH_SIZE)))
         /\ UNCHANGED <<px, vw, rt, ovars>>
    \/ (\E i \in 1..Len(ep.items) : Acquire(i)) /\ UNCHANGED <<px, vw, rt, ovars>>
    \/ (\E i \in 1..Len(ep.items) :
           VisionReturn(i, VisionReplies(Len(ep.items[i].image_data))))
         /\ UNCHANGED <<px, vw, rt, ovars>>

\* SpecGates: the tasks of one batch.  The gates do not depend on what the
\* collaborators answer, so each answers in one of two ways: the page is not
\* fetched or has one photo, the photo is downloaded or not, the classifier
\* raises or accepts the photo
GatesNext ==
    \/ (\E i \in 1..Len(ep.items) : EnrichStart(i)) /\ UNCHANGED <<px, vw, rt, ovars>>
    \/ (\E i \in 1..Len(ep.items) :
           CrawlReturn(i, {NoHtml, Html(<<ImageUrl(1)>>, <<>>)}))
         /\ UNCHANGED <<px, vw, rt, ovars>>
    \/ (\E i \in 1..Len(ep.items) : DownloadReturn(i, {{}, {1}}))
         /\ UNCHANGED <<px, vw, rt, ovars>>
    \/ (\E i \in 1..Len(ep.items) : Acquire(i)) /\ UNCHANGED <<px, vw, rt, ovars>>
    \/ (\E i \in 1..Len(ep.items) :
           VisionReturn(i, {Reply("raise", FALSE, <<>>),
                            Reply("json", TRUE, <<JDict(Json("bool", TRUE, 0, ""),
                                                        Json("int", FALSE, 90, ""))>>)}))
         /\ UNCHANGED <<px, vw, rt, ovars>>

(***************************************************************************)
(* Retry loops around the collaborators:                                   *)
(*   scrape_batch_with_retry   crawler/01_outscrape.py (business search)   *)
(*   classify_with_claude      scripts/enrich/enrich_services_from_website *)
(*   vision_verify_batch       crawler/05_enrich_images.py                 *)
(***************************************************************************)
MaxRetriesArg == 3      \* largest --max-retries tried

RETRY_DELAYS == <<5, 15, 30>>

\* how a collaborator call can end: a result, HTTP 429, HTTP 5xx, an error
\* that is not worth a retry (HTTP 401), the batch alarm of 01_outscrape
CallOutcomes == {"ok", "429", "500", "401", "timeout"}

RtIdle == [pc |-> "idle"]

\* the first attempt of a call; max_retries is the number of attempts the
\* function allows
NewCall(fn, max_retries) ==
    [pc |-> "call", fn |-> fn, max_retries |-> max_retries, attempt |-> 1,
     delays |-> <<>>, errors |-> <<>>]

\* `if attempt < max_retries - 1`, attempts counted from 1 here
ScrapeRetries(attempt, max_retries) == attempt - 1 < max_retries - 1

\* scrape_batch_with_retry: the search call of one attempt ends; every
\* exception counts as retryable, the delay is 2 ** attempt
ScrapeCall ==
    /\ rt.pc = "call" /\ rt.fn = "scrape_batch_with_retry"
    /\ \E out \in CallOutcomes :
         IF out = "ok" THEN rt' = [rt EXCEPT !.pc = "returned"]
         ELSE IF ScrapeRetries(rt.attempt, rt.max_retries)
              THEN rt' = [rt EXCEPT !.pc = "sleep", !.errors = Append(@, out),
                                    !.delays = Append(@, 2 ^ (rt.attempt - 1))]
              ELSE rt' = [rt EXCEPT !.pc = "failed", !.errors = Append(@, out)]

\* classify_with_claude: messages.create of one attempt ends; only
\* anthropic.RateLimitError leads to another turn of the loop
ClassifyCall ==
    /\ rt.pc = "call" /\ rt.fn = "classify_with_claude"
    /\ \E out \in CallOutcomes \ {"timeout"} :
         IF out = "ok" THEN rt' = [rt EXCEPT !.pc = "returned"]
         ELSE IF out = "429" /\ ~(rt.attempt > Len(RETRY_DELAYS))
              THEN rt' = [rt EXCEPT !.pc = "sleep", !.errors = Append(@, out),
                                    !.delays = Append(@, RETRY_DELAYS[rt.attempt])]
              ELSE rt' = [rt EXCEPT !.pc = "failed", !.errors = Append(@, out)]

\* vision_verify_batch: one messages.create, every exception gives the
\* pessimistic list
VisionCall ==
    /\ rt.pc = "call" /\ rt.fn = "vision_verify_batch"
    /\ \E out \in CallOutcomes \ {"timeout"} :
         IF out = "ok" THEN rt' = [rt EXCEPT !.pc = "returned"]
         ELSE rt' = [rt EXCEPT !.pc = "failed", !.errors = Append(@, out)]

\* time.sleep / asyncio.sleep ends and the next attempt starts
Backoff ==
    /\ rt.pc = "sleep"
    /\ rt' = [rt EXCEPT !.pc = "call", !.attempt = @ + 1]

RetryNext ==
    \/ (ScrapeCall /\ UNCHANGED <<px, vw, ep, ovars>>)
    \/ (ClassifyCall /\ UNCHANGED <<px, vw, ep, ovars>>)
    \/ (VisionCall /\ UNCHANGED <<px, vw, ep, ovars>>)
    \/ (Backoff /\ UNCHANGED <<px, vw, ep, ovars>>)


(***************************************************************************)
(* Specifications.                                                         *)
(***************************************************************************)
OrchIdle ==
    /\ driver = "none" /\ batch_size = 0 /\ run_no = 0 /\ resume = FALSE
    /\ pc = "idle" /\ rows_list = <<>> /\ batch_start = 0 /\ results = <<>>
    /\ state = <<>> /\ state_file = <<>> /\ tmp_file = <<>>
    /\ mem_kept = <<>> /\ mem_rejected = <<>> /\ sink_kept = <<>>
    /\ sink_rejected = <<>> /\ db_images = <<>> /\ hist = <<>>

PureInit == px = PxIdle /\ vw = VwIdle /\ ep = EpIdle /\ rt = RtIdle /\ OrchIdle

SpecPure == PureInit /\ [][PureNext]_vars

\* the verifier started without --resume on an input of one row
VerifyOrchInit ==
    /\ driver \in {"verify_backflow", "verify_and_enrich"}
    /\ batch_size = 1 /\ run_no = 1 /\ resume = FALSE /\ pc = "tasks"
    /\ rows_list = <<1>> /\ batch_start = 0 /\ results = <<Pending>>
    /\ state = FreshVerifierState
    /\ state_file = AbsentFile /\ tmp_file = AbsentFile
    /\ mem_kept = <<>> /\ mem_rejected = <<>>
    /\ sink_kept = <<>> /\ sink_rejected = <<>>
    /\ db_images = [id \in 1..NumItems |-> 0]
    /\ hist = NoHist

VerifyInit == px = PxIdle /\ VwInit /\ ep = EpIdle /\ rt = RtIdle /\ VerifyOrchInit

SpecVerify == VerifyInit /\ [][VerifyNext]_vars

Init == px = PxIdle /\ vw = VwIdle /\ ep = EpIdle /\ rt = RtIdle /\ OrchInit

Spec == Init /\ [][Next]_vars

\* SpecEnrich: one business, every input
EnrichInit ==
    /\ px = PxIdle /\ vw = VwIdle /\ rt = RtIdle /\ OrchIdle
    /\ \E row \in EnrichRows,
          args \in [vision_threshold : VisionThresholds, dry_run : BOOLEAN,
                    no_crawl : BOOLEAN] :
         ep = [items |-> <<NewTask(row)>>, semaphore |-> VISION_CONCURRENCY,
               args |-> args]

SpecEnrich == EnrichInit /\ [][EnrichNext]_vars

\* SpecGates: a batch of 1 .. MaxEnrichBatch businesses with a website, the
\* semaphore as run() creates it
GatesInit ==
    /\ px = PxIdle /\ vw = VwIdle /\ rt = RtIdle /\ OrchIdle
    /\ \E n \in 1..MaxEnrichBatch :
         ep = [items |-> [i \in 1..n |-> NewTask([website |-> Website,
                                                 best_evidence |-> "", photo |-> ""])],
               semaphore |-> VISION_CONCURRENCY,
               args |-> [vision_threshold |-> 60, dry_run |-> FALSE, no_crawl |-> FALSE]]

SpecGates == GatesInit /\ [][GatesNext]_vars

\* SpecRetry: one call of one of the three functions
RetryInit ==
    /\ px = PxIdle /\ vw = VwIdle /\ ep = EpIdle /\ OrchIdle
    /\ \/ \E m \in 1..MaxRetriesArg : rt = NewCall("scrape_batch_with_retry", m)
       \/ rt = NewCall("classify_with_claude", Len(RETRY_DELAYS) + 1)
       \/ rt = NewCall("vision_verify_batch", 1)

SpecRetry == RetryInit /\ [][RetryNext]_vars

MaxPhotos == 7          \* <img> tags on the largest homepage of SpecStageC

\* SpecStageC: one business with a website whose homepage has 0 .. MaxPhotos
\* photos, each download succeeds or fails, and the classifier raises or
\* answers with one well-formed verdict per image: relevant with confidence
\* 90, 40 or 75, or not relevant
StageCInit ==
    /\ px = PxIdle /\ vw = VwIdle /\ rt = RtIdle /\ OrchIdle
    /\ ep = [items |-> <<NewTask([website |-> Website, best_evidence |-> "",
                                 photo |-> ""])>>,
             semaphore |-> VISION_CONCURRENCY,
             args |-> [vision_threshold |-> 60, dry_run |-> FALSE, no_crawl |-> FALSE]]

StageCNext ==
    \/ EnrichStart(1) /\ UNCHANGED <<px, vw, rt, ovars>>
    \/ CrawlReturn(1, {Html([k \in 1..n |-> ImageUrl(k)], <<>>) : n \in 0..MaxPhotos})
         /\ UNCHANGED <<px, vw, rt, ovars>>
    \/ DownloadReturn(1, SUBSET (1..VISION_BATCH_SIZE)) /\ UNCHANGED <<px, vw, rt, ovars>>
    \/ Acquire(1) /\ UNCHANGED <<px, vw, rt, ovars>>
    \/ VisionReturn(1, {Reply("raise", FALSE, <<>>)} \cup
                        {Reply("json", TRUE, elems) :
                            elems \in [1..Len(ep.items[1].image_data) ->
                                          {JDict(Json("bool", TRUE, 0, ""), Json("int", FALSE, 90, "")),
                                           JDict(Json("bool", TRUE, 0, ""), Json("int", FALSE, 40, "")),
                                           JDict(Json("bool", TRUE, 0, ""), Json("int", FALSE, 75, "")),
                                           JDict(Json("bool", FALSE, 0, ""), Json("int", FALSE, 95, ""))}]})
         /\ UNCHANGED <<px, vw, rt, ovars>>

SpecStageC == StageCInit /\ [][StageCNext]_vars

(***************************************************************************)
(* Claims about the pure functions (checked under SpecPure).               *)
(***************************************************************************)
\* C7: assign_tier returns "testing" only if score >= testing_threshold and a
\* matched term is in TESTING_TIER_TERMS, and returns "none" whenever the score is
\* below the service threshold 2, whatever the terms and the testing threshold.
C7_AssignTierContract ==
    px.op = "assign_tier" =>
        /\ (px.tier = "testing" =>
                /\ px.score >= px.testing_threshold
                /\ px.terms \cap TESTING_TIER_TERMS # {})
        /\ (px.score < 2 => px.tier = "none")

Scenario1Text(t) == Lower(t) \in {"backflow testing rpz", "rpz backflow testing"}

\* C9 as stated: a text made of "backflow testing" and "rpz" scores 4, and the
\* tier is "testing" when the testing threshold is <= 4.
C9_ScenarioScoresFour ==
    (px.op = "score_tier" /\ Scenario1Text(px.text)) =>
        /\ px.r.score = 4
        /\ (px.testing_threshold <= 4 => px.tier = "testing")

\* C9 amended: such a text scores 8, because "backflow test" (3) and "backflow" (1)
\* are substrings of "backflow testing" and match too; the tier is "testing" when
\* the testing threshold is <= 4 (indeed whenever it is <= 8).
C9_ScenarioScoresEight ==
    (px.op = "score_tier" /\ Scenario1Text(px.text)) =>
        /\ px.r.score = 8
        /\ px.r.matched = {"backflow testing", "backflow test", "backflow", "rpz"}
        /\ (px.testing_threshold <= 8 => px.tier = "testing")

\* C9 witness: the scenario with mixed case and the default testing threshold.
C9_Witness ==
    /\ px.op = "score_tier"
    /\ px.text = "Backflow Testing rpz"
    /\ px.testing_threshold = 4
    /\ px.tier = "testing"

(***************************************************************************)
(* Claims about verify_website (checked under SpecVerify).                 *)
(***************************************************************************)
\* the website cells that are absent, empty or without a host
NoHostCells ==
    {NaN, Str(""), Str("  "), Str("https://"), Str("http:///about"), Str("[::1"),
     Str("?q=1")}

\* C10: a business whose website is absent, empty or without a host ends in
\* NO_WEBSITE with tier none and zero pages crawled, and no page is ever requested
\* from the page-fetch collaborator for it.
C10_NoWebsiteNoFetch ==
    (vw.pc # "idle" /\ vw.cell \in NoHostCells) =>
        /\ vw.fetched = <<>>
        /\ vw.pc \in {"start", "done"}
        /\ (vw.pc = "done" =>
                /\ vw.result.crawl_status = "NO_WEBSITE"
                /\ vw.result.tier = "none"
                /\ vw.result.pages_crawled = 0)

\* C10 witness: a website with a scheme and a path but no host has been verified.
C10_Witness ==
    /\ vw.pc = "done"
    /\ vw.cell = Str("http:///about")
    /\ vw.result.crawl_status = "NO_WEBSITE"

(***************************************************************************)
(* Claims about the batch drivers, checked under Spec.                     *)
(***************************************************************************)
ErrorIds == {o[1] : o \in {x \in hist.outcome : x[2] = "error"}}
OutcomeIds == {o[1] : o \in hist.outcome}
SinkIds == {row.place_id : row \in Range(sink_kept) \cup Range(sink_rejected)}
BatchRecorded == pc \in {"flush_enriched", "flush_rejected", "save", "saving", "sleep"}

\* C1: partial-failure isolation.  A task that raises never ends the run, and
\* once the results of a batch have been gone through every item of the batch
\* has its own outcome.
C1_PartialFailureIsolation ==
    /\ pc # "aborted"
    /\ BatchRecorded => \A k \in 1..Len(results) : Batch[k] \in OutcomeIds

\* C2: resume idempotence of the verifier.  When a verifier run that crashed
\* between two batches has been resumed and has finished, the output files hold,
\* for every id checkpointed at the crash, the record the first run produced, and
\* the resumed run has processed exactly the other ids.
C2_ResumeIdempotent ==
    (IsVerifier(driver) /\ pc = "done" /\ resume /\ hist.after_crash /\ hist.crash_clean) =>
        /\ \A id \in hist.crash_ckpt :
              \E row \in Range(sink_kept) \cup Range(sink_rejected) :
                  row.place_id = id /\ row \in hist.first_rows
        /\ hist.tasks = Range(InputIds) \ hist.crash_ckpt

\* C3: replay on resume is bounded by one batch.  In a run resumed after a
\* crash, the items that had completed before and are selected again number at
\* most batch_size.
C3_ReplayAtMostOneBatch ==
    (resume /\ hist.after_crash) => Cardinality(hist.replay) <= batch_size

\* C4: the checkpoint file is never left torn: after a crash it holds a complete
\* state or does not exist.
C4_CheckpointAtomic ==
    pc = "crashed" => state_file.kind # "torn"

\* C5: at the end of a run the ids that have a row in the output files are the
\* ids the checkpoint records as processed (drivers that write output files).
C5_SinksEqualProcessed ==
    (pc = "done" /\ driver # "enrich_images_db") => SinkIds = CheckpointIds

\* C6: an item that ended in an error is in the processed ids of the checkpoint
\* written for its batch, and a run resumed from that checkpoint does not
\* select it again.
C6_ErrorItemCheckpointed ==
    /\ (BatchRecorded /\ pc # "saving" /\ state # <<>>) =>
            ErrorIds \subseteq Range(ProcessedIds(driver, state))
    /\ state_file.kind = "json" => hist.ckpt_errors \subseteq CheckpointIds
    /\ (resume /\ pc \in Running) =>
            /\ Range(rows_list) \cap hist.loaded = {}
            /\ Range(rows_list) \cap hist.start_errors = {}

\* C6 witness: a run resumed from a checkpoint that holds an item which ended
\* in an error is working on the other items.
C6_Witness ==
    /\ resume /\ pc = "tasks"
    /\ hist.start_errors # {}
    /\ hist.start_errors \subseteq CheckpointIds
    /\ Range(rows_list) # {}

(***************************************************************************)
(* Claims about verify_website and its place in the batch (SpecVerify).    *)
(***************************************************************************)
HomepageFetched == Len(vw.fetch_ok) >= 1
HomepageOk == HomepageFetched /\ vw.fetch_ok[1]

\* the message verify_website should carry for a failed homepage fetch
CollaboratorError(reply) ==
    IF reply.kind = "timeout" THEN "Timeout"
    ELSE IF reply.error = "" THEN "Unknown error" ELSE reply.error

\* C11: when the homepage fetch fails the business ends in CRAWL_FAILED with the
\* collaborator's error message, no internal page is fetched, pages_crawled
\* stays 0, and the business is in the processed ids of the batch's checkpoint.
C11_HomepageFailure ==
    (vw.pc # "idle" /\ HomepageFetched /\ ~vw.fetch_ok[1]) =>
        /\ vw.pc = "done"
        /\ vw.result.crawl_status = "CRAWL_FAILED"
        /\ vw.result.crawl_error = CollaboratorError(vw.home_reply)
        /\ vw.result.tier = "none"
        /\ vw.result.pages_crawled = 0
        /\ vw.fetched = <<vw.website>>
        /\ (pc \in {"save", "saving"} => 1 \in Range(state.processed_place_ids))
        /\ (pc \in {"write_verified", "write_rejected", "done"} => 1 \in CheckpointIds)

\* C11 witness: the homepage fetch timed out and the checkpoint of the batch,
\* written to disk, holds the business.
C11_Witness ==
    /\ vw.pc = "done" /\ HomepageFetched
    /\ vw.home_reply.kind = "timeout"
    /\ vw.result.crawl_status = "CRAWL_FAILED"
    /\ pc = "done"
    /\ 1 \in CheckpointIds

\* C12: when the homepage is fetched and its score reaches the threshold, the
\* business ends verified on the homepage: status OK, matched_on HOMEPAGE, the
\* homepage as evidence URL, one page crawled and no internal page fetched.
C12_VerifiedOnHomepage ==
    (vw.pc # "idle" /\ HomepageOk /\ vw.score >= vw.threshold) =>
        /\ vw.pc = "done"
        /\ vw.result.crawl_status = "OK"
        /\ vw.result.backflow_score = vw.score
        /\ vw.result.matched_on = "HOMEPAGE"
        /\ vw.result.best_evidence_url = vw.website
        /\ vw.result.pages_crawled = 1
        /\ vw.fetched = <<vw.website>>

\* C12 witness: a homepage that scores exactly the threshold and has links to
\* service pages, which are not fetched.
C12_Witness ==
    /\ vw.pc = "done" /\ HomepageOk
    /\ vw.score = vw.threshold
    /\ vw.max_pages > 1
    /\ vw.home_reply.html.anchors = NavLinks
    /\ vw.result.matched_on = "HOMEPAGE"

\* the internal pages fetched so far, and those that were fetched successfully
InternalFetched == SubSeq(vw.fetched, 2, Len(vw.fetched))
OkFetches == {k \in 1..Len(vw.fetch_ok) : vw.fetch_ok[k]}

\* C19: once the homepage was fetched, a failed internal fetch is not fatal: the
\* status is never CRAWL_FAILED, only successful fetches are counted and can be
\* the evidence, the candidates are fetched in their order, and the loop ends
\* only when every candidate was fetched or the evidence is strong.
C19_InternalFailureNotFatal ==
    (vw.pc # "idle" /\ HomepageOk) =>
        /\ vw.result.crawl_status # "CRAWL_FAILED"
        /\ vw.result.pages_crawled = Cardinality(OkFetches)
        /\ vw.best_url \in {vw.fetched[k] : k \in OkFetches}
        /\ \A k \in 1..Len(InternalFetched) : InternalFetched[k] = vw.internal_links[k].url
        /\ (vw.pc = "internal" => vw.i = Len(InternalFetched) + 1)
        /\ (vw.pc = "done" /\ Len(vw.internal_links) > 0) =>
                \/ Len(InternalFetched) = Len(vw.internal_links)
                \/ vw.best_score >= 2 * vw.threshold

\* C19 witness: an internal fetch failed, a later candidate was fetched and
\* verified the business.
C19_Witness ==
    /\ vw.pc = "done" /\ HomepageOk
    /\ \E k \in 2..Len(vw.fetch_ok) :
          /\ ~vw.fetch_ok[k]
          /\ \E j \in (k + 1)..Len(vw.fetch_ok) : vw.fetch_ok[j] /\ vw.best_url = vw.fetched[j]
    /\ vw.result.crawl_status = "OK"

\* C20: an internal page is fetched only while the best score so far is below
\* twice the verification threshold.
C20_EarlyExit ==
    vw.pc = "internal" => vw.best_score < 2 * vw.threshold

\* C20 witness: the loop stopped on strong evidence with candidates left.
C20_Witness ==
    /\ vw.pc = "done" /\ HomepageOk
    /\ Len(InternalFetched) >= 1
    /\ Len(InternalFetched) < Len(vw.internal_links)
    /\ vw.best_score >= 2 * vw.threshold

(***************************************************************************)
(* Claims about the image pipeline (SpecEnrich, SpecGates).                *)
(***************************************************************************)
Tasks == 1..Len(ep.items)
SelectedUrls(it) == {it.selected[k].url : k \in 1..Len(it.selected)}

\* C13: a business gets at most 3 selected images, and every selected image
\* has a verdict whose relevant is true and whose confidence is at least the
\* configured vision threshold.
C13_SelectionContract ==
    \A i \in Tasks :
        /\ Len(ep.items[i].selected) <= MAX_SELECTED
        /\ \A k \in 1..Len(ep.items[i].selected) :
              LET verdict == ep.items[i].selected[k].verdict
              IN  /\ verdict.relevant = Json("bool", TRUE, 0, "")
                  /\ verdict.confidence.t = "int"
                  /\ verdict.confidence.n >= ep.args.vision_threshold

\* a verdict as the classifier is asked to give it
WellFormed(verdict) ==
    /\ verdict.t = "dict"
    /\ verdict.relevant.t = "bool"
    /\ verdict.confidence.t = "int"

\* the response of the last classifier call has a well-formed verdict at
\* position k
HasVerdictAt(it, k) ==
    /\ it.reply.kind = "json"
    /\ k <= Len(it.reply.elems)
    /\ WellFormed(it.reply.elems[k])

\* the last classifier call raised, or returned text that is no JSON, or
\* returned another number of verdicts than images were submitted
ResponseFailed(it) ==
    \/ it.reply.kind \in {"raise", "text"}
    \/ it.reply.kind = "json" /\ Len(it.reply.elems) # Len(it.image_data)

\* C14: classification is fail-closed.  After a classifier call that raised,
\* returned unparseable text or returned a wrong number of verdicts, the task
\* has not crashed and no image without a well-formed verdict at its position
\* has been selected.
C14_FailClosed ==
    \A i \in Tasks :
        ResponseFailed(ep.items[i]) =>
            /\ ep.items[i].pc # "raised"
            /\ \A k \in 1..Len(ep.items[i].image_data) :
                  ~HasVerdictAt(ep.items[i], k) =>
                      ep.items[i].image_data[k] \notin SelectedUrls(ep.items[i])

\* C15: outside dry-run the status enrich_provider returns is enriched exactly
\* when an image was selected, no_candidates exactly when no candidate URL
\* survived the heuristic filter, and no_images_passed in the remaining case.
C15_EnrichmentStatus ==
    \A i \in Tasks :
        (ep.items[i].pc = "done" /\ ~ep.args.dry_run) =>
            LET it == ep.items[i]
            IN  /\ it.status \in {"enriched", "no_candidates", "no_images_passed"}
                /\ it.status = "enriched" <=> it.selected # <<>>
                /\ it.status = "no_candidates" <=> it.candidates = <<>>
                /\ it.status = "no_images_passed" <=>
                       (it.candidates # <<>> /\ it.selected = <<>>)
                /\ \A k \in 1..Len(it.candidates) :
                       it.candidates[k] \in Range(it.candidate_urls)

\* C15 witness: candidates survived the filter and were submitted, none was
\* selected, and the business was returned as no_images_passed.
C15_Witness ==
    \E i \in Tasks :
        /\ ep.items[i].pc = "done" /\ ~ep.args.dry_run
        /\ ep.items[i].status = "no_images_passed"
        /\ ep.items[i].evaluated > 0
        /\ ep.items[i].candidates # <<>>

VisionCallsInFlight == Cardinality({i \in Tasks : ep.items[i].pc = "vision"})
PageFetchesInFlight == Cardinality({i \in Tasks : ep.items[i].pc = "crawl"})

\* C16: both collaborators are behind a gate.  At any moment at most
\* VISION_CONCURRENCY classifier calls are in flight, and the page fetches in
\* flight stay under a limit that does not grow with the batch: they never
\* reach the size of the largest batch.
C16_BoundedGates ==
    /\ VisionCallsInFlight <= VISION_CONCURRENCY
    /\ PageFetchesInFlight < MaxEnrichBatch

(***************************************************************************)
(* Claims about the retry loops (SpecRetry).                               *)
(***************************************************************************)
Retryable(error) == error \in {"429", "500"}

RECURSIVE Increasing(_)
Increasing(delays) ==
    Len(delays) <= 1 \/ (delays[1] < delays[2] /\ Increasing(Tail(delays)))

\* C17: a call to the business-search or the classification collaborator
\* that fails with HTTP 429 or 5xx is tried again after a delay that grows
\* from one attempt to the next; the call fails for good only when the last
\* of a fixed number of attempts has failed, and for the classification
\* collaborator that number allows at least one retry.
C17_RetryableRetried ==
    /\ rt.pc # "idle" => (rt.attempt <= rt.max_retries /\ Increasing(rt.delays))
    /\ (rt.pc = "failed" /\ Retryable(rt.errors[Len(rt.errors)])) =>
          /\ rt.attempt = rt.max_retries
          /\ Len(rt.delays) = rt.attempt - 1
          /\ rt.fn # "scrape_batch_with_retry" => rt.attempt > 1

(***************************************************************************)
(* Claim about the order of the steps of a batch (Spec).                   *)
(***************************************************************************)
\* C18: in the drivers that write sinks, a batch goes tasks, sinks,
\* checkpoint, delay: the next batch starts only when the delay has elapsed,
\* and every id of the persisted checkpoint has its row in a sink.
C18_BatchStepOrder ==
    [][driver' # "enrich_images_db" =>
          /\ (pc' = "tasks" /\ batch_start' > batch_start) => pc = "sleep"
          /\ (pc' \in Running /\ state_file' # state_file) => CheckpointIds' \subseteq SinkIds']_vars

(***************************************************************************)
(* Further claims about verify_website (SpecVerify).                       *)
(***************************************************************************)
\* the business went through the second pass (line 393 taken)
AfterInternalCrawl ==
    /\ vw.pc = "done" /\ HomepageOk
    /\ vw.score < vw.threshold
    /\ vw.max_pages > 1 /\ vw.home_reply.html.nonempty

\* the largest per-page score of the pages crawled
MaxPageScore ==
    CHOOSE m \in {vw.page_results[k].score : k \in OkFetches} :
        \A k \in OkFetches : vw.page_results[k].score <= m

\* C21: after internal crawling the final score is the maximum of the per-page
\* scores of the pages crawled, the matched terms are the union over those
\* pages, the business is verified (status OK) exactly when that maximum reaches
\* the threshold, then with matched_on BOTH if the homepage scored above 0 and
\* INTERNAL if it scored 0, and otherwise it is NOT_RELEVANT with tier none.
C21_BestPageScore ==
    AfterInternalCrawl =>
        /\ vw.result.backflow_score = MaxPageScore
        /\ vw.result.backflow_hits = UNION {vw.page_results[k].matched : k \in OkFetches}
        /\ (vw.result.crawl_status = "OK") = (MaxPageScore >= vw.threshold)
        /\ vw.result.crawl_status = "OK" =>
               vw.result.matched_on =
                   IF vw.page_results[1].score > 0 THEN "BOTH" ELSE "INTERNAL"
        /\ vw.result.crawl_status # "OK" =>
               vw.result.crawl_status = "NOT_RELEVANT" /\ vw.result.tier = "none"

\* C21 witness: the homepage and an internal page both scored above 0, the
\* sum of their scores differs from the maximum, and the maximum verifies.
C21_Witness ==
    /\ AfterInternalCrawl
    /\ \E k \in OkFetches : k > 1 /\ vw.page_results[k].score > 0
    /\ vw.page_results[1].score > 0
    /\ vw.result.backflow_score = MaxPageScore
    /\ vw.result.matched_on = "BOTH"

\* the relevance rank of the k-th internal page fetched
FetchedRelevance(k) == vw.internal_links[k].rel

\* every same-domain service link found on the homepage, in document order
HomepageLinks == vw.found_links

C29_NoUrlFetchedTwice ==
    vw.pc # "idle" =>
        \A j \in 1..Len(vw.fetched) : \A k \in 1..Len(vw.fetched) :
            j # k => vw.fetched[j] # vw.fetched[k]

\* C26: every record routed to the verified sink has tier service or testing;
\* tier none never appears in the verified output, whatever --threshold and
\* --testing-threshold are.
C26_NoTierNoneVerified ==
    /\ \A k \in 1..Len(mem_kept) : mem_kept[k].tier \in {"service", "testing"}
    /\ \A k \in 1..Len(sink_kept) : sink_kept[k].tier \in {"service", "testing"}

CrawlingDone(it) ==
    /\ it.pc \notin {"start", "crawl"}
    /\ it.row.website # "" /\ ~ep.args.no_crawl

\* C23: stage A, for a business with a website and crawling enabled, crawls
\* the homepage, then the best-evidence URL when it differs, then the service
\* pages discovered on the pages crawled, at most MAX_PAGES pages in all: every
\* discovered service link queued within the budget is crawled.
C23_StageACrawlsServicePages ==
    \A i \in Tasks :
        LET it == ep.items[i]
        IN  CrawlingDone(it) =>
                /\ Len(it.fetched) <= MAX_PAGES
                /\ it.fetched[1] = it.row.website
                /\ (it.row.best_evidence # "" /\ it.row.best_evidence # it.row.website) =>
                       (Len(it.fetched) >= 2 /\ it.fetched[2] = it.row.best_evidence)
                /\ \A k \in 1..Min(Len(it.pages_to_crawl), MAX_PAGES) :
                       it.pages_to_crawl[k] \in Range(it.fetched)

\* the URLs of a selected list, in order
UrlsOf(selected) == [k \in 1..Len(selected) |-> selected[k].url]

\* a verdict that is relevant with a confidence of at least the threshold
RelevantVerdict(verdict, threshold) ==
    /\ verdict.t = "dict"
    /\ verdict.relevant = Json("bool", TRUE, 0, "")
    /\ verdict.confidence.t = "int"
    /\ verdict.confidence.n >= threshold

\* the images of a sub-batch whose verdict is relevant, in submission order
Passing(image_data, verdicts, threshold) ==
    Keep(image_data, 1,
         {k \in 1..Min(Len(image_data), Len(verdicts)) :
             RelevantVerdict(verdicts[k], threshold)})

\* the position of a URL in the filtered candidate list
PositionIn(candidates, url) == CHOOSE p \in 1..Len(candidates) : candidates[p] = url

\* C24: the selected images are the first up-to-3 downloaded candidates whose
\* verdict is relevant with confidence >= threshold, in the order of the
\* filtered candidate list: each classifier call appends the passing images of
\* its sub-batch in submission order, up to 3 in all, and nothing is re-ordered
\* by confidence.
C24_SelectionOrder ==
    [][\A i \in 1..Len(ep.items) :
          LET it   == ep.items[i]
              next == ep'.items[i]
          IN  (it.pc = "vision" /\ next.pc # "vision") =>
                  /\ UrlsOf(next.selected) =
                         Take(UrlsOf(it.selected)
                                  \o Passing(it.image_data,
                                             vision_verify_batch(it.image_data, next.reply),
                                             ep.args.vision_threshold),
                              MAX_SELECTED)
                  /\ \A j \in 1..Len(next.selected) : \A k \in 1..Len(next.selected) :
                         j < k => PositionIn(it.candidates, next.selected[j].url)
                                      < PositionIn(it.candidates, next.selected[k].url)
      ]_vars

\* C25: in stage C no sub-batch is downloaded or submitted to the classifier
\* once MAX_SELECTED images are selected or MAX_CANDIDATES candidates are
\* evaluated: the classifier is called at most twice for a business and never
\* after the third selection.
C25_StageCBudget ==
    \A i \in Tasks :
        LET it == ep.items[i]
        IN  /\ it.calls <= 2
            /\ it.pc \in {"download", "acquire", "vision"} =>
                   /\ Len(it.selected) < MAX_SELECTED
                   /\ it.evaluated < MAX_CANDIDATES
                   /\ it.batch_start < MAX_CANDIDATES

\* C25 witness: the homepage had 7 photos, 6 became candidates, the first
\* sub-batch gave three selected images and the second was never downloaded.
C25_Witness ==
    \E i \in Tasks :
        LET it == ep.items[i]
        IN  /\ it.pc = "done"
            /\ Len(it.candidate_urls) > MAX_CANDIDATES
            /\ Len(it.candidates) = MAX_CANDIDATES
            /\ Len(it.selected) = MAX_SELECTED
            /\ it.calls = 1 /\ it.evaluated = VISION_BATCH_SIZE

(***************************************************************************)
(* Further claims about the batch drivers (Spec).                          *)
(***************************************************************************)
\* the outcome counters of an image-enrichment state add up to its processed ids
CountersMatchProcessed(st) ==
    st.enriched_count + st.no_image_count + st.error_count = Len(st.processed_ids)

\* C27: in both image-enrichment drivers recording an item adds its id to the
\* processed ids and increments exactly one outcome counter, so after every
\* batch enriched_count + no_image_count + error_count is the number of
\* processed ids, in memory and in the checkpoint file.
C27_OneCounterPerItem ==
    driver \in {"enrich_images", "enrich_images_db"} =>
        /\ pc \in Running \cup {"done"} => CountersMatchProcessed(state)
        /\ state_file.kind = "json" => CountersMatchProcessed(state_file.content)

\* the rows of the two image sinks, enriched first
SinkRows == sink_kept \o sink_rejected

\* C30: in the image pipeline, whatever the crash point and with a following
\* run with --resume, each business id has at most one row in the enriched and
\* rejected sinks together: rows appended before the crash are not appended
\* again by the resumed run.
C30_NoDuplicateSinkRows ==
    driver = "enrich_images" =>
        \A j \in 1..Len(SinkRows) : \A k \in 1..Len(SinkRows) :
            SinkRows[j].place_id = SinkRows[k].place_id => j = k

====
